---------------------------- MODULE Spec2Model ----------------------------
(***************************************************************************)
(* The sensor task manager of EnviroSense (sensor_task.c / sensor_task.h,  *)
(* kept in src/unnamed/part_019) with the SHT30, GY30 and MQ-2 adapters.   *)
(*                                                                         *)
(* Two tasks are modelled: the polling task SensorTask_MainLoop, one step  *)
(* per statement group that another task can observe, and one application  *)
(* task that calls the public API, one call at a time.  A mutating call    *)
(* (Init, RegisterSensor, EnableSensor, ...) is one step of the            *)
(* application task; a query takes the data mutex and is three steps.      *)
(*                                                                         *)
(* Abstractions: floats are exact numbers (averages are reduced fractions  *)
(* <<num, den>>); the tick counts in steps of one loop period and wraps at *)
(* TickWrap instead of 2^32; the history capacity is scaled down from 20;  *)
(* data.timestamp, names and the device handle are left out.               *)
(***************************************************************************)
EXTENDS Integers, Sequences, FiniteSets, TLC

(* ------------------------------ constants ------------------------------ *)
SENSOR_TYPE_NONE == 0
SENSOR_TYPE_GY30 == 1
SENSOR_TYPE_SHT30 == 2
SENSOR_TYPE_SMOKE == 3
SENSOR_TYPE_MAX == 4

SENSOR_STATUS_OFFLINE == "OFFLINE"
SENSOR_STATUS_ONLINE == "ONLINE"
SENSOR_STATUS_ERROR == "ERROR"
SENSOR_STATUS_INITIALIZING == "INITIALIZING"

SENSOR_EVENT_DATA_UPDATE == "DATA_UPDATE"
SENSOR_EVENT_STATUS_CHANGE == "STATUS_CHANGE"

\* history capacity: 20 in sensor_task.h, scaled down to keep the state space small
SENSOR_HISTORY_SIZE == 3
\* error counts at which SensorTask_HandleSensorError escalates
ERROR_SOFT_THRESHOLD == 5
ERROR_HARD_THRESHOLD == 10
\* shortest interval SensorTask_SetUpdateInterval accepts (ms)
MIN_UPDATE_INTERVAL == 100
\* nominal loop period of SensorTask_MainLoop (ms)
LOOP_PERIOD_MS == 100
\* the task's osDelay before its first sweep (ms)
BOOT_DELAY_MS == 1000

\* number of loop periods after which the modelled tick wraps
TickPeriods == 3

TickWrap == TickPeriods * LOOP_PERIOD_MS
Types == SENSOR_TYPE_NONE .. (SENSOR_TYPE_MAX - 1)
RealTypes == (SENSOR_TYPE_NONE + 1) .. (SENSOR_TYPE_MAX - 1)
Slots == 0 .. (SENSOR_HISTORY_SIZE - 1)

(* ------------------------------- numbers ------------------------------- *)
RECURSIVE GCD(_, _)
GCD(a, b) == IF b = 0 THEN a ELSE GCD(b, a % b)

\* the quotient n / d of two floats, kept exact as a reduced fraction
FDiv(n, d) == LET g == GCD(n, d) IN <<n \div g, d \div g>>

\* a float holding the whole number v
FNum(v) == <<v, 1>>

\* HAL_GetTick() - t in unsigned arithmetic
TickSub(a, b) == (a - b + TickWrap) % TickWrap

TickAdd(a, ms) == (a + ms) % TickWrap

(* -------------------------------- state -------------------------------- *)
VARIABLES
    sensors,                    \* g_sensor_manager.sensors
    callbacks,                  \* g_sensor_manager.callbacks
    is_initialized,             \* g_sensor_manager.is_initialized
    active_sensor_count,        \* g_sensor_manager.active_sensor_count
    global_data_mutex,          \* "null", "free", or the task holding it
    g_event_callback,           \* TRUE when a callback is registered
    ordered_primary_history,    \* static buffer of SensorTask_GetPrimaryHistory
    ordered_secondary_history,  \* static buffer of SensorTask_GetSecondaryHistory
    tick,                       \* HAL_GetTick()
    pc,                         \* where the polling task is
    cur,                        \* its loop variable i
    current_time,               \* its local current_time
    adapter_local,              \* locals of the adapter call in progress
    app,                        \* the application task's call in progress
    events,                     \* events the callback received in the last step
    deinit_calls,               \* adapter deinit calls made in the last step
    fed                         \* the last readings each adapter returned

vars == <<sensors, callbacks, is_initialized, active_sensor_count,
          global_data_mutex, g_event_callback, ordered_primary_history,
          ordered_secondary_history, tick, pc, cur, current_time,
          adapter_local, app, events, deinit_calls, fed>>

ZeroStats == [min |-> 0, max |-> 0, avg |-> FNum(0),
              local_min |-> 0, local_max |-> 0, local_avg |-> FNum(0)]

ZeroData == [p |-> 0, s |-> 0, is_valid |-> FALSE]

\* a SensorInstance_t after memset(0)
ZeroSensor ==
    [status |-> SENSOR_STATUS_OFFLINE,
     data |-> ZeroData,
     update_interval_ms |-> 0,
     last_update_time |-> 0,
     error_count |-> 0,
     is_enabled |-> FALSE,
     stats |-> ZeroStats,
     secondary_stats |-> ZeroStats,
     history |-> [i \in Slots |-> 0],
     secondary_history |-> [i \in Slots |-> 0],
     history_head |-> 0,
     history_count |-> 0]

NoCallbacks == [init_func |-> FALSE, read_func |-> FALSE, deinit_func |-> FALSE]

\* The application task's call: where it is, the function and its type
\* argument, the return value, what it wrote through its output pointer, and
\* (kept for the properties) the status the instance had when the call began.
AppIdle == [pc |-> "idle", op |-> "none", type |-> 0, ret |-> FALSE,
            out |-> "unset", before |-> "none"]

\* how many readings of each adapter the model remembers
FedLen == SENSOR_HISTORY_SIZE + 2

Init ==
    /\ sensors = [t \in Types |-> ZeroSensor]
    /\ callbacks = [t \in Types |-> NoCallbacks]
    /\ is_initialized = FALSE
    /\ active_sensor_count = 0
    /\ global_data_mutex = "null"
    /\ g_event_callback = FALSE
    /\ ordered_primary_history = [i \in Slots |-> 0]
    /\ ordered_secondary_history = [i \in Slots |-> 0]
    /\ tick = 0
    /\ pc = "none"
    /\ cur = 0
    /\ current_time = 0
    /\ adapter_local = 0
    /\ app = AppIdle
    /\ events = <<>>
    /\ deinit_calls = <<>>
    /\ fed = [t \in Types |-> <<>>]

(* ---------------------- the manager's nested calls ---------------------- *)
\* The value a call works on and returns: the instance table, the active
\* count, what the step has delivered to the callback and to the adapters'
\* deinit so far, and the call's return value.
Mgr == [sensors |-> sensors, active |-> active_sensor_count,
        evs |-> <<>>, deinits |-> <<>>, ret |-> FALSE]

ValidType(type) == type < SENSOR_TYPE_MAX /\ type # SENSOR_TYPE_NONE

Event(event_type, type, data, status) ==
    [event_type |-> event_type, sensor_type |-> type, data |-> data, status |-> status]

\* SensorTask_NotifyEvent: a NULL data pointer leaves event.data zeroed
SensorTask_NotifyEvent(M, event_type, type, data, status) ==
    IF g_event_callback
    THEN [M EXCEPT !.evs = Append(@, Event(event_type, type, data, status))]
    ELSE M

\* EnableSensor without the test of is_enabled
EnableSensor_Unguarded(M, type) ==
    IF ~is_initialized \/ ~ValidType(type)
    THEN [M EXCEPT !.ret = FALSE]
    ELSE LET M1 == [M EXCEPT !.sensors[type].is_enabled = TRUE,
                             !.sensors[type].status = SENSOR_STATUS_INITIALIZING,
                             !.sensors[type].error_count = 0,
                             !.active = @ + 1,
                             !.ret = TRUE]
         IN SensorTask_NotifyEvent(M1, SENSOR_EVENT_STATUS_CHANGE, type,
                                   ZeroData, SENSOR_STATUS_INITIALIZING)

\* EnableSensor that forgets to clear error_count
EnableSensor_KeepsCount(M, type) ==
    IF ~is_initialized \/ ~ValidType(type)
    THEN [M EXCEPT !.ret = FALSE]
    ELSE IF ~M.sensors[type].is_enabled
         THEN LET M1 == [M EXCEPT !.sensors[type].is_enabled = TRUE,
                                  !.sensors[type].status = SENSOR_STATUS_INITIALIZING,
                                  !.active = @ + 1,
                                  !.ret = TRUE]
              IN SensorTask_NotifyEvent(M1, SENSOR_EVENT_STATUS_CHANGE, type,
                                        ZeroData, SENSOR_STATUS_INITIALIZING)
         ELSE [M EXCEPT !.ret = TRUE]

SensorTask_EnableSensor(M, type) ==
    IF ~is_initialized \/ ~ValidType(type)
    THEN [M EXCEPT !.ret = FALSE]
    ELSE IF ~M.sensors[type].is_enabled
         THEN LET M1 == [M EXCEPT !.sensors[type].is_enabled = TRUE,
                                  !.sensors[type].status = SENSOR_STATUS_INITIALIZING,
                                  !.sensors[type].error_count = 0,
                                  !.active = @ + 1,
                                  !.ret = TRUE]
              IN SensorTask_NotifyEvent(M1, SENSOR_EVENT_STATUS_CHANGE, type,
                                        ZeroData, SENSOR_STATUS_INITIALIZING)
         ELSE [M EXCEPT !.ret = TRUE]

\* DisableSensor without the test of is_enabled
DisableSensor_Unguarded(M, type) ==
    IF ~is_initialized \/ ~ValidType(type)
    THEN [M EXCEPT !.ret = FALSE]
    ELSE LET M1 == [M EXCEPT !.deinits = IF callbacks[type].deinit_func
                                          THEN Append(@, type) ELSE @,
                             !.sensors[type].is_enabled = FALSE,
                             !.sensors[type].status = SENSOR_STATUS_OFFLINE,
                             !.active = IF @ > 0 THEN @ - 1 ELSE @,
                             !.ret = TRUE]
         IN SensorTask_NotifyEvent(M1, SENSOR_EVENT_STATUS_CHANGE, type,
                                   ZeroData, SENSOR_STATUS_OFFLINE)

\* DisableSensor that also empties the sensor's history
DisableSensor_DropsHistory(M, type) ==
    IF ~is_initialized \/ ~ValidType(type)
    THEN [M EXCEPT !.ret = FALSE]
    ELSE IF M.sensors[type].is_enabled
         THEN LET M1 == [M EXCEPT !.deinits = IF callbacks[type].deinit_func
                                               THEN Append(@, type) ELSE @,
                                  !.sensors[type].is_enabled = FALSE,
                                  !.sensors[type].status = SENSOR_STATUS_OFFLINE,
                                  !.sensors[type].history_head = 0,
                                  !.sensors[type].history_count = 0,
                                  !.active = @ - 1,
                                  !.ret = TRUE]
              IN SensorTask_NotifyEvent(M1, SENSOR_EVENT_STATUS_CHANGE, type,
                                        ZeroData, SENSOR_STATUS_OFFLINE)
         ELSE [M EXCEPT !.ret = TRUE]

SensorTask_DisableSensor(M, type) ==
    IF ~is_initialized \/ ~ValidType(type)
    THEN [M EXCEPT !.ret = FALSE]
    ELSE IF M.sensors[type].is_enabled
         THEN LET M1 == [M EXCEPT !.deinits = IF callbacks[type].deinit_func
                                               THEN Append(@, type) ELSE @,
                                  !.sensors[type].is_enabled = FALSE,
                                  !.sensors[type].status = SENSOR_STATUS_OFFLINE,
                                  !.active = @ - 1,
                                  !.ret = TRUE]
              IN SensorTask_NotifyEvent(M1, SENSOR_EVENT_STATUS_CHANGE, type,
                                        ZeroData, SENSOR_STATUS_OFFLINE)
         ELSE [M EXCEPT !.ret = TRUE]

\* HandleSensorError that also disables the sensor at the soft threshold
HandleSensorError_SoftDisables(M, type) ==
    LET M1 == [M EXCEPT !.sensors[type].error_count = @ + 1]
        M2 == IF M1.sensors[type].error_count = ERROR_SOFT_THRESHOLD
              THEN [SensorTask_DisableSensor(M1, type) EXCEPT
                       !.sensors[type].status = SENSOR_STATUS_INITIALIZING]
              ELSE M1
    IN IF M2.sensors[type].error_count = ERROR_HARD_THRESHOLD
       THEN LET M3 == SensorTask_DisableSensor(M2, type)
                M4 == [M3 EXCEPT !.sensors[type].status = SENSOR_STATUS_ERROR]
            IN SensorTask_NotifyEvent(M4, SENSOR_EVENT_STATUS_CHANGE, type,
                                      ZeroData, SENSOR_STATUS_ERROR)
       ELSE M2

\* HandleSensorError that marks the Error first and disables afterwards
HandleSensorError_ErrorFirst(M, type) ==
    LET M1 == [M EXCEPT !.sensors[type].error_count = @ + 1]
        M2 == IF M1.sensors[type].error_count = ERROR_SOFT_THRESHOLD
              THEN [M1 EXCEPT !.sensors[type].status = SENSOR_STATUS_INITIALIZING]
              ELSE M1
    IN IF M2.sensors[type].error_count = ERROR_HARD_THRESHOLD
       THEN LET M3 == [M2 EXCEPT !.sensors[type].status = SENSOR_STATUS_ERROR]
                M4 == SensorTask_NotifyEvent(M3, SENSOR_EVENT_STATUS_CHANGE, type,
                                             ZeroData, SENSOR_STATUS_ERROR)
            IN SensorTask_DisableSensor(M4, type)
       ELSE M2

\* HandleSensorError that disables at the hard threshold and stops there
HandleSensorError_StopsAtDisable(M, type) ==
    LET M1 == [M EXCEPT !.sensors[type].error_count = @ + 1]
        M2 == IF M1.sensors[type].error_count = ERROR_SOFT_THRESHOLD
              THEN [M1 EXCEPT !.sensors[type].status = SENSOR_STATUS_INITIALIZING]
              ELSE M1
    IN IF M2.sensors[type].error_count = ERROR_HARD_THRESHOLD
       THEN SensorTask_DisableSensor(M2, type)
       ELSE M2

SensorTask_HandleSensorError(M, type) ==
    LET M1 == [M EXCEPT !.sensors[type].error_count = @ + 1]
        M2 == IF M1.sensors[type].error_count = ERROR_SOFT_THRESHOLD
              THEN [M1 EXCEPT !.sensors[type].status = SENSOR_STATUS_INITIALIZING]
              ELSE M1
    IN IF M2.sensors[type].error_count = ERROR_HARD_THRESHOLD
       THEN LET M3 == SensorTask_DisableSensor(M2, type)
                M4 == [M3 EXCEPT !.sensors[type].status = SENSOR_STATUS_ERROR]
            IN SensorTask_NotifyEvent(M4, SENSOR_EVENT_STATUS_CHANGE, type,
                                      ZeroData, SENSOR_STATUS_ERROR)
       ELSE M2

\* cbs is the callbacks pointer the caller passes: cbs.ptr is FALSE for NULL
\* RegisterSensor that does not test read_func
RegisterSensor_NoReadTest(M, type, cbs, ms) ==
    IF ~is_initialized \/ type >= SENSOR_TYPE_MAX \/ type = SENSOR_TYPE_NONE
       \/ ~cbs.ptr
    THEN [M EXCEPT !.ret = FALSE]
    ELSE IF ~cbs.init_func
         THEN [M EXCEPT !.ret = FALSE]
         ELSE LET M1 == [M EXCEPT !.sensors[type].update_interval_ms = ms,
                                  !.sensors[type].error_count = 0,
                                  !.sensors[type].is_enabled = FALSE]
              IN [SensorTask_EnableSensor(M1, type) EXCEPT !.ret = TRUE]

\* RegisterSensor that leaves is_enabled as it was
RegisterSensor_KeepsEnabled(M, type, cbs, ms) ==
    IF ~is_initialized \/ type >= SENSOR_TYPE_MAX \/ type = SENSOR_TYPE_NONE
       \/ ~cbs.ptr
    THEN [M EXCEPT !.ret = FALSE]
    ELSE IF ~cbs.init_func \/ ~cbs.read_func
         THEN [M EXCEPT !.ret = FALSE]
         ELSE LET M1 == [M EXCEPT !.sensors[type].update_interval_ms = ms,
                                  !.sensors[type].error_count = 0]
              IN [SensorTask_EnableSensor(M1, type) EXCEPT !.ret = TRUE]

SensorTask_RegisterSensor(M, type, cbs, ms) ==
    IF ~is_initialized \/ type >= SENSOR_TYPE_MAX \/ type = SENSOR_TYPE_NONE
       \/ ~cbs.ptr
    THEN [M EXCEPT !.ret = FALSE]
    ELSE IF ~cbs.init_func \/ ~cbs.read_func
         THEN [M EXCEPT !.ret = FALSE]
         ELSE LET M1 == [M EXCEPT !.sensors[type].update_interval_ms = ms,
                                  !.sensors[type].error_count = 0,
                                  !.sensors[type].is_enabled = FALSE]
              IN [SensorTask_EnableSensor(M1, type) EXCEPT !.ret = TRUE]

\* what a call leaves in the manager and delivers to the callback and adapters
Commit(M) ==
    /\ sensors' = M.sensors
    /\ active_sensor_count' = M.active
    /\ events' = M.evs
    /\ deinit_calls' = M.deinits

Returned(op, type, ret, out) ==
    [pc |-> "ret", op |-> op, type |-> type, ret |-> ret, out |-> out,
     before |-> IF type \in Types THEN sensors[type].status ELSE "none"]

(* ------------------- the application task: mutators ------------------- *)
\* SensorTask_Init without the test of is_initialized
AppInit_Again(mutex_ok, task_ok) ==
    /\ app.pc = "idle"
    /\ sensors' = [t \in Types |-> ZeroSensor]
    /\ callbacks' = [t \in Types |-> NoCallbacks]
    /\ active_sensor_count' = 0
    /\ global_data_mutex' = IF mutex_ok THEN "free" ELSE "null"
    /\ is_initialized' = (mutex_ok /\ task_ok)
    /\ pc' = IF mutex_ok /\ task_ok THEN "boot" ELSE pc
    /\ cur' = cur
    /\ app' = Returned("Init", 0, mutex_ok /\ task_ok, "unset")
    /\ events' = <<>>
    /\ deinit_calls' = <<>>
    /\ UNCHANGED <<g_event_callback, ordered_primary_history,
                   ordered_secondary_history, tick, current_time, adapter_local, fed>>

\* SensorTask_Init; mutex_ok and task_ok are whether osMutexCreate and
\* osThreadCreate succeed
AppInit(mutex_ok, task_ok) ==
    /\ app.pc = "idle"
    /\ IF is_initialized
       THEN /\ app' = Returned("Init", 0, TRUE, "unset")
            /\ UNCHANGED <<sensors, callbacks, is_initialized, active_sensor_count,
                           global_data_mutex, pc, cur>>
       ELSE /\ sensors' = [t \in Types |-> ZeroSensor]
            /\ callbacks' = [t \in Types |-> NoCallbacks]
            /\ active_sensor_count' = 0
            /\ global_data_mutex' = IF mutex_ok THEN "free" ELSE "null"
            /\ is_initialized' = (mutex_ok /\ task_ok)
            /\ pc' = IF mutex_ok /\ task_ok THEN "boot" ELSE pc
            /\ cur' = cur
            /\ app' = Returned("Init", 0, mutex_ok /\ task_ok, "unset")
    /\ events' = <<>>
    /\ deinit_calls' = <<>>
    /\ UNCHANGED <<g_event_callback, ordered_primary_history,
                   ordered_secondary_history, tick, current_time, adapter_local, fed>>

AppRegisterSensor(type, cbs, ms) ==
    /\ app.pc = "idle"
    /\ LET M == SensorTask_RegisterSensor(Mgr, type, cbs, ms)
       IN /\ Commit(M)
          /\ callbacks' = IF M.ret
                          THEN [callbacks EXCEPT ![type] =
                                   [init_func |-> cbs.init_func,
                                    read_func |-> cbs.read_func,
                                    deinit_func |-> cbs.deinit_func]]
                          ELSE callbacks
          /\ app' = Returned("RegisterSensor", type, M.ret, "unset")
    /\ UNCHANGED <<is_initialized, global_data_mutex, g_event_callback,
                   ordered_primary_history, ordered_secondary_history, tick, pc,
                   cur, current_time, adapter_local, fed>>

AppEnableSensor(type) ==
    /\ app.pc = "idle"
    /\ LET M == SensorTask_EnableSensor(Mgr, type)
       IN /\ Commit(M)
          /\ app' = Returned("EnableSensor", type, M.ret, "unset")
    /\ UNCHANGED <<callbacks, is_initialized, global_data_mutex, g_event_callback,
                   ordered_primary_history, ordered_secondary_history, tick, pc,
                   cur, current_time, adapter_local, fed>>

AppDisableSensor(type) ==
    /\ app.pc = "idle"
    /\ LET M == SensorTask_DisableSensor(Mgr, type)
       IN /\ Commit(M)
          /\ app' = Returned("DisableSensor", type, M.ret, "unset")
    /\ UNCHANGED <<callbacks, is_initialized, global_data_mutex, g_event_callback,
                   ordered_primary_history, ordered_secondary_history, tick, pc,
                   cur, current_time, adapter_local, fed>>

\* SetUpdateInterval that also rejects the shortest interval
SetUpdateInterval_Exclusive(M, type, ms) ==
    IF ~is_initialized \/ type >= SENSOR_TYPE_MAX \/ type = SENSOR_TYPE_NONE
       \/ ms <= MIN_UPDATE_INTERVAL
    THEN [M EXCEPT !.ret = FALSE]
    ELSE [M EXCEPT !.sensors[type].update_interval_ms = ms, !.ret = TRUE]

\* SetUpdateInterval that stores whatever interval it is given
SetUpdateInterval_Unchecked(M, type, ms) ==
    IF ~is_initialized \/ type >= SENSOR_TYPE_MAX \/ type = SENSOR_TYPE_NONE
    THEN [M EXCEPT !.ret = FALSE]
    ELSE [M EXCEPT !.sensors[type].update_interval_ms = ms, !.ret = TRUE]

SensorTask_SetUpdateInterval(M, type, ms) ==
    IF ~is_initialized \/ type >= SENSOR_TYPE_MAX \/ type = SENSOR_TYPE_NONE
       \/ ms < MIN_UPDATE_INTERVAL
    THEN [M EXCEPT !.ret = FALSE]
    ELSE [M EXCEPT !.sensors[type].update_interval_ms = ms, !.ret = TRUE]

AppSetUpdateInterval(type, ms) ==
    /\ app.pc = "idle"
    /\ LET M == SensorTask_SetUpdateInterval(Mgr, type, ms)
       IN /\ Commit(M)
          /\ app' = Returned("SetUpdateInterval", type, M.ret, "unset")
    /\ UNCHANGED <<callbacks, is_initialized, global_data_mutex, g_event_callback,
                   ordered_primary_history, ordered_secondary_history, tick, pc,
                   cur, current_time, adapter_local, fed>>

\* SensorTask_RegisterEventCallback; cb is FALSE for a NULL pointer
AppRegisterEventCallback(cb) ==
    /\ app.pc = "idle"
    /\ g_event_callback' = cb
    /\ app' = Returned("RegisterEventCallback", 0, TRUE, "unset")
    /\ events' = <<>>
    /\ deinit_calls' = <<>>
    /\ UNCHANGED <<sensors, callbacks, is_initialized, active_sensor_count,
                   global_data_mutex, ordered_primary_history,
                   ordered_secondary_history, tick, pc, cur, current_time,
                   adapter_local, fed>>

\* the call returns to the application task
AppReturn ==
    /\ app.pc = "ret"
    /\ app' = AppIdle
    /\ events' = <<>>
    /\ deinit_calls' = <<>>
    /\ UNCHANGED <<sensors, callbacks, is_initialized, active_sensor_count,
                   global_data_mutex, g_event_callback, ordered_primary_history,
                   ordered_secondary_history, tick, pc, cur, current_time,
                   adapter_local, fed>>

(* -------------------- the application task: queries -------------------- *)
BoolQueries == {"GetSensorData", "GetSensorStatus", "GetStats", "GetSecondaryStats"}
HistoryQueries == {"GetPrimaryHistory", "GetSecondaryHistory"}

\* the argument checks a query makes before it looks at the instance
QueryArgsOk(op, type) ==
    /\ is_initialized
    /\ type < SENSOR_TYPE_MAX
    /\ op = "GetSensorData" => type # SENSOR_TYPE_NONE
    /\ op \in {"GetSecondaryStats", "GetSecondaryHistory"} => type = SENSOR_TYPE_SHT30

\* the unguarded test of the instance that decides whether the mutex is taken
QueryReady(op, type) ==
    CASE op = "GetSensorData" -> sensors[type].is_enabled /\ sensors[type].data.is_valid
      [] op = "GetSensorStatus" -> TRUE
      [] OTHER -> sensors[type].is_enabled /\ sensors[type].history_count > 0

\* what a query returns when it gives up
QueryFailed(op, type) ==
    IF op \in HistoryQueries
    THEN Returned(op, type, 0, "NULL")
    ELSE Returned(op, type, FALSE, "unset")

AppQueryBegin(op, type) ==
    /\ app.pc = "idle"
    /\ app' = IF QueryArgsOk(op, type) /\ QueryReady(op, type)
              THEN [pc |-> "wait", op |-> op, type |-> type, ret |-> FALSE,
                    out |-> "unset", before |-> sensors[type].status]
              ELSE QueryFailed(op, type)
    /\ events' = <<>>
    /\ deinit_calls' = <<>>
    /\ UNCHANGED <<sensors, callbacks, is_initialized, active_sensor_count,
                   global_data_mutex, g_event_callback, ordered_primary_history,
                   ordered_secondary_history, tick, pc, cur, current_time,
                   adapter_local, fed>>

\* osMutexWait(global_data_mutex, 100) returns osOK
AppQueryLock ==
    /\ app.pc = "wait"
    /\ global_data_mutex = "free"
    /\ global_data_mutex' = "app"
    /\ app' = [app EXCEPT !.pc = "locked"]
    /\ events' = <<>>
    /\ deinit_calls' = <<>>
    /\ UNCHANGED <<sensors, callbacks, is_initialized, active_sensor_count,
                   g_event_callback, ordered_primary_history,
                   ordered_secondary_history, tick, pc, cur, current_time,
                   adapter_local, fed>>

\* a wait that at its timeout goes on as if it had the mutex
AppQueryTimeout_GoesOn ==
    /\ app.pc = "wait"
    /\ global_data_mutex # "free"
    /\ app' = [app EXCEPT !.pc = "locked"]
    /\ events' = <<>>
    /\ deinit_calls' = <<>>
    /\ UNCHANGED <<sensors, callbacks, is_initialized, active_sensor_count,
                   global_data_mutex, g_event_callback, ordered_primary_history,
                   ordered_secondary_history, tick, pc, cur, current_time,
                   adapter_local, fed>>

\* osMutexWait(global_data_mutex, 100) times out: the mutex stayed taken
AppQueryTimeout ==
    /\ app.pc = "wait"
    /\ global_data_mutex # "free"
    /\ app' = QueryFailed(app.op, app.type)
    /\ events' = <<>>
    /\ deinit_calls' = <<>>
    /\ UNCHANGED <<sensors, callbacks, is_initialized, active_sensor_count,
                   global_data_mutex, g_event_callback, ordered_primary_history,
                   ordered_secondary_history, tick, pc, cur, current_time,
                   adapter_local, fed>>

\* the copy loop of the history getters: buf[i] = hist[read_idx], i < count
RECURSIVE CopyHistory(_, _, _, _, _)
CopyHistory(buf, hist, read_idx, i, count) ==
    IF i < count
    THEN CopyHistory([buf EXCEPT ![i] = hist[read_idx]], hist,
                     (read_idx + 1) % SENSOR_HISTORY_SIZE, i + 1, count)
    ELSE buf

\* unrolling that starts at the head whether the ring is full or not
OrderedHistory_FromHead(buf, hist, sensor) ==
    CopyHistory(buf, hist, sensor.history_head, 0, sensor.history_count)

\* unrolling that starts at slot 0 whether the ring is full or not
OrderedHistory_FromZero(buf, hist, sensor) ==
    CopyHistory(buf, hist, 0, 0, sensor.history_count)

\* the static buffer after the getter has unrolled the ring into it
OrderedHistory(buf, hist, sensor) ==
    LET read_idx == IF sensor.history_count < SENSOR_HISTORY_SIZE
                    THEN 0 ELSE sensor.history_head
    IN CopyHistory(buf, hist, read_idx, 0, sensor.history_count)

\* the critical section of a query, up to osMutexRelease
AppQueryCopy ==
    /\ app.pc = "locked"
    /\ global_data_mutex' = "free"
    /\ LET sensor == sensors[app.type]
       IN /\ app' = CASE app.op = "GetSensorData" ->
                           Returned(app.op, app.type, TRUE, sensor.data)
                      [] app.op = "GetSensorStatus" ->
                           Returned(app.op, app.type, TRUE, sensor.status)
                      [] app.op = "GetStats" ->
                           Returned(app.op, app.type, TRUE, sensor.stats)
                      [] app.op = "GetSecondaryStats" ->
                           Returned(app.op, app.type, TRUE, sensor.secondary_stats)
                      [] OTHER -> [app EXCEPT !.pc = "copied"]
          /\ ordered_primary_history' =
                IF app.op = "GetPrimaryHistory"
                THEN OrderedHistory(ordered_primary_history, sensor.history, sensor)
                ELSE ordered_primary_history
          /\ ordered_secondary_history' =
                IF app.op = "GetSecondaryHistory"
                THEN OrderedHistory(ordered_secondary_history,
                                    sensor.secondary_history, sensor)
                ELSE ordered_secondary_history
    /\ events' = <<>>
    /\ deinit_calls' = <<>>
    /\ UNCHANGED <<sensors, callbacks, is_initialized, active_sensor_count,
                   g_event_callback, tick, pc, cur, current_time, adapter_local, fed>>

\* after the release: *history_data = buffer; return sensor->history_count
AppHistoryReturn ==
    /\ app.pc = "copied"
    /\ app' = Returned(app.op, app.type, sensors[app.type].history_count,
                       IF app.op = "GetPrimaryHistory"
                       THEN "ordered_primary_history"
                       ELSE "ordered_secondary_history")
    /\ events' = <<>>
    /\ deinit_calls' = <<>>
    /\ UNCHANGED <<sensors, callbacks, is_initialized, active_sensor_count,
                   global_data_mutex, g_event_callback, ordered_primary_history,
                   ordered_secondary_history, tick, pc, cur, current_time,
                   adapter_local, fed>>

\* sensors_details_update_timer_cb, the reader of the chart screen: its call
\* of GetPrimaryHistory returns into history_count (kept in app.ret) and the
\* callback goes on, without blocking, to its next call
TimerPrimaryReturn ==
    /\ app.pc = "copied"
    /\ app.op = "GetPrimaryHistory"
    /\ app' = [app EXCEPT !.pc = "cb",
                          !.ret = sensors[app.type].history_count,
                          !.out = "ordered_primary_history"]
    /\ events' = <<>>
    /\ deinit_calls' = <<>>
    /\ UNCHANGED <<sensors, callbacks, is_initialized, active_sensor_count,
                   global_data_mutex, g_event_callback, ordered_primary_history,
                   ordered_secondary_history, tick, pc, cur, current_time,
                   adapter_local, fed>>

\* if (history_count > 0 && history_primary != NULL) and, for the SHT30, the
\* call of GetSecondaryHistory, whose return value the callback drops:
\* history_count stays that of the first call
TimerSecondaryBegin ==
    /\ app.pc = "cb"
    /\ app' = IF app.ret > 0 /\ app.type = SENSOR_TYPE_SHT30
              THEN IF QueryArgsOk("GetSecondaryHistory", app.type)
                      /\ QueryReady("GetSecondaryHistory", app.type)
                   THEN [app EXCEPT !.pc = "wait", !.op = "GetSecondaryHistory",
                                    !.out = "unset"]
                   ELSE [app EXCEPT !.pc = "ret", !.op = "GetSecondaryHistory",
                                    !.out = "NULL"]
              ELSE [app EXCEPT !.pc = "ret"]
    /\ events' = <<>>
    /\ deinit_calls' = <<>>
    /\ UNCHANGED <<sensors, callbacks, is_initialized, active_sensor_count,
                   global_data_mutex, g_event_callback, ordered_primary_history,
                   ordered_secondary_history, tick, pc, cur, current_time,
                   adapter_local, fed>>

\* GetSecondaryHistory returns to the callback, which keeps its history_count
TimerSecondaryReturn ==
    /\ app.pc = "copied"
    /\ app.op = "GetSecondaryHistory"
    /\ app' = [app EXCEPT !.pc = "ret", !.out = "ordered_secondary_history"]
    /\ events' = <<>>
    /\ deinit_calls' = <<>>
    /\ UNCHANGED <<sensors, callbacks, is_initialized, active_sensor_count,
                   global_data_mutex, g_event_callback, ordered_primary_history,
                   ordered_secondary_history, tick, pc, cur, current_time,
                   adapter_local, fed>>

(* --------------------------- analytics update --------------------------- *)
FMin(a, b) == IF b < a THEN b ELSE a
FMax(a, b) == IF b > a THEN b ELSE a

\* the scan loop over the window, i = 0 .. count - 1, for one channel;
\* acc is <<sum, min, max>>
RECURSIVE WindowScan(_, _, _, _, _)
WindowScan(hist, start_idx, i, count, acc) ==
    IF i < count
    THEN LET val == hist[(start_idx + i) % SENSOR_HISTORY_SIZE]
         IN WindowScan(hist, start_idx, i + 1, count,
                       <<acc[1] + val, FMin(acc[2], val), FMax(acc[3], val)>>)
    ELSE acc

\* step 3 with a scan that starts at the head, the oldest slot of a full
\* ring only
UpdateStats_ScanFromHead(st, hist, head, count, value) ==
    IF count = 1
    THEN [st EXCEPT !.min = value, !.max = value, !.avg = FNum(value)]
    ELSE LET acc == WindowScan(hist, head, 0, count,
                               <<0, hist[head], hist[head]>>)
             local_avg == FDiv(acc[1], count)
         IN [st EXCEPT !.min = FMin(@, value),
                       !.max = FMax(@, value),
                       !.local_min = acc[2],
                       !.local_max = acc[3],
                       !.local_avg = local_avg,
                       !.avg = local_avg]

\* step 3 that keeps the window's extremes as the lifetime extremes
UpdateStats_WindowAsLifetime(st, hist, head, count, value) ==
    IF count = 1
    THEN [st EXCEPT !.min = value, !.max = value, !.avg = FNum(value)]
    ELSE LET start_idx == (head - count + SENSOR_HISTORY_SIZE) % SENSOR_HISTORY_SIZE
             acc == WindowScan(hist, start_idx, 0, count,
                               <<0, hist[start_idx], hist[start_idx]>>)
             local_avg == FDiv(acc[1], count)
         IN [st EXCEPT !.min = acc[2],
                       !.max = acc[3],
                       !.local_min = acc[2],
                       !.local_max = acc[3],
                       !.local_avg = local_avg,
                       !.avg = local_avg]

\* step 3 of the update for one channel: st is the channel's statistics,
\* hist its ring (already holding the new value), value the new value
UpdateStats(st, hist, head, count, value) ==
    IF count = 1
    THEN [st EXCEPT !.min = value, !.max = value, !.avg = FNum(value)]
    ELSE LET start_idx == (head - count + SENSOR_HISTORY_SIZE) % SENSOR_HISTORY_SIZE
             acc == WindowScan(hist, start_idx, 0, count,
                               <<0, hist[start_idx], hist[start_idx]>>)
             local_avg == FDiv(acc[1], count)
         IN [st EXCEPT !.min = FMin(@, value),
                       !.max = FMax(@, value),
                       !.local_min = acc[2],
                       !.local_max = acc[3],
                       !.local_avg = local_avg,
                       !.avg = local_avg]

\* an update that counts every reading, without the cap at the ring size
UpdateAnalytics_Uncapped(sensor, type) ==
    LET primary_value == IF type \in RealTypes THEN sensor.data.p ELSE 0
        secondary_value == IF type = SENSOR_TYPE_SHT30 THEN sensor.data.s ELSE 0
        dual == (type = SENSOR_TYPE_SHT30)
        history == [sensor.history EXCEPT ![sensor.history_head] = primary_value]
        secondary_history ==
            IF dual
            THEN [sensor.secondary_history EXCEPT ![sensor.history_head] = secondary_value]
            ELSE sensor.secondary_history
        head == (sensor.history_head + 1) % SENSOR_HISTORY_SIZE
        count == sensor.history_count + 1
    IN [sensor EXCEPT
          !.data.is_valid = TRUE,
          !.error_count = 0,
          !.history = history,
          !.secondary_history = secondary_history,
          !.history_head = head,
          !.history_count = count,
          !.stats = UpdateStats(@, history, head, count, primary_value),
          !.secondary_stats = IF dual
                              THEN UpdateStats(@, secondary_history, head, count,
                                               secondary_value)
                              ELSE @]

\* an update whose count stops one short of the ring size
UpdateAnalytics_CapsEarly(sensor, type) ==
    LET primary_value == IF type \in RealTypes THEN sensor.data.p ELSE 0
        secondary_value == IF type = SENSOR_TYPE_SHT30 THEN sensor.data.s ELSE 0
        dual == (type = SENSOR_TYPE_SHT30)
        history == [sensor.history EXCEPT ![sensor.history_head] = primary_value]
        secondary_history ==
            IF dual
            THEN [sensor.secondary_history EXCEPT ![sensor.history_head] = secondary_value]
            ELSE sensor.secondary_history
        head == (sensor.history_head + 1) % SENSOR_HISTORY_SIZE
        count == IF sensor.history_count < SENSOR_HISTORY_SIZE - 1
                 THEN sensor.history_count + 1 ELSE sensor.history_count
    IN [sensor EXCEPT
          !.data.is_valid = TRUE,
          !.error_count = 0,
          !.history = history,
          !.secondary_history = secondary_history,
          !.history_head = head,
          !.history_count = count,
          !.stats = UpdateStats(@, history, head, count, primary_value),
          !.secondary_stats = IF dual
                              THEN UpdateStats(@, secondary_history, head, count,
                                               secondary_value)
                              ELSE @]

\* the part of SensorTask_UpdateSensor that runs under the mutex
UpdateAnalytics(sensor, type) ==
    LET primary_value == IF type \in RealTypes THEN sensor.data.p ELSE 0
        secondary_value == IF type = SENSOR_TYPE_SHT30 THEN sensor.data.s ELSE 0
        dual == (type = SENSOR_TYPE_SHT30)
        history == [sensor.history EXCEPT ![sensor.history_head] = primary_value]
        secondary_history ==
            IF dual
            THEN [sensor.secondary_history EXCEPT ![sensor.history_head] = secondary_value]
            ELSE sensor.secondary_history
        head == (sensor.history_head + 1) % SENSOR_HISTORY_SIZE
        count == IF sensor.history_count < SENSOR_HISTORY_SIZE
                 THEN sensor.history_count + 1 ELSE sensor.history_count
    IN [sensor EXCEPT
          !.data.is_valid = TRUE,
          !.error_count = 0,
          !.history = history,
          !.secondary_history = secondary_history,
          !.history_head = head,
          !.history_count = count,
          !.stats = UpdateStats(@, history, head, count, primary_value),
          !.secondary_stats = IF dual
                              THEN UpdateStats(@, secondary_history, head, count,
                                               secondary_value)
                              ELSE @]

\* a polling task that runs whatever the application task is doing (no
\* difference of priority)
SensorTaskRuns_AnyTime == TRUE

\* a polling task that also runs between the two calls of the chart's timer
\* callback, as if the callback slept there
SensorTaskRuns_InCallback ==
    \/ app.pc \in {"idle", "ret", "cb"}
    \/ app.pc = "wait" /\ global_data_mutex # "free"

(* --------------------------- the polling task --------------------------- *)
\* The polling task has priority osPriorityBelowNormal and the tasks that
\* call the manager osPriorityNormal, on one core: the polling task runs
\* only while the application task is outside a call or blocked on the
\* mutex, and the application task can cut in before any of its steps.
SensorTaskRuns ==
    \/ app.pc \in {"idle", "ret"}
    \/ app.pc = "wait" /\ global_data_mutex # "free"

\* the steps below are taken when the polling task runs and leave everything
\* of the application task and the manager's set-up alone
SchedFrame ==
    /\ SensorTaskRuns
    /\ UNCHANGED <<callbacks, is_initialized, g_event_callback,
                   ordered_primary_history, ordered_secondary_history, app>>

\* the for loop goes on to the next instance
NextSensor ==
    /\ pc' = "for"
    /\ cur' = cur + 1
    /\ current_time' = 0

PushFed(q, r) == IF Len(q) < FedLen THEN Append(q, r) ELSE Append(Tail(q), r)

\* osDelay(1000) ends and the first sweep starts
SchedStart ==
    /\ pc = "boot"
    /\ pc' = "for"
    /\ cur' = SENSOR_TYPE_NONE + 1
    /\ tick' = TickAdd(tick, BOOT_DELAY_MS)
    /\ events' = <<>>
    /\ deinit_calls' = <<>>
    /\ SchedFrame
    /\ UNCHANGED <<sensors, active_sensor_count, global_data_mutex,
                   current_time, adapter_local, fed>>

\* a sweep that goes on with a sensor whether it is enabled or not
SchedCheckEnabled_IgnoresEnabled ==
    /\ pc = "for"
    /\ cur < SENSOR_TYPE_MAX
    /\ pc' = "status"
    /\ events' = <<>>
    /\ deinit_calls' = <<>>
    /\ SchedFrame
    /\ UNCHANGED <<sensors, active_sensor_count, global_data_mutex, tick,
                   adapter_local, fed, cur, current_time>>

\* a sweep that ends at the first sensor that is not enabled (break for
\* continue)
SchedCheckEnabled_Break ==
    /\ pc = "for"
    /\ cur < SENSOR_TYPE_MAX
    /\ IF sensors[cur].is_enabled
       THEN pc' = "status" /\ UNCHANGED <<cur, current_time>>
       ELSE pc' = "for" /\ cur' = SENSOR_TYPE_MAX /\ current_time' = 0
    /\ events' = <<>>
    /\ deinit_calls' = <<>>
    /\ SchedFrame
    /\ UNCHANGED <<sensors, active_sensor_count, global_data_mutex, tick,
                   adapter_local, fed>>

\* if (!sensor->is_enabled) continue;
SchedCheckEnabled ==
    /\ pc = "for"
    /\ cur < SENSOR_TYPE_MAX
    /\ IF sensors[cur].is_enabled
       THEN pc' = "status" /\ UNCHANGED <<cur, current_time>>
       ELSE NextSensor
    /\ events' = <<>>
    /\ deinit_calls' = <<>>
    /\ SchedFrame
    /\ UNCHANGED <<sensors, active_sensor_count, global_data_mutex, tick,
                   adapter_local, fed>>

\* if (sensor->status == SENSOR_STATUS_INITIALIZING)
SchedCheckStatus ==
    /\ pc = "status"
    /\ pc' = IF sensors[cur].status = SENSOR_STATUS_INITIALIZING THEN "init" ELSE "due"
    /\ events' = <<>>
    /\ deinit_calls' = <<>>
    /\ SchedFrame
    /\ UNCHANGED <<sensors, active_sensor_count, global_data_mutex, tick, cur,
                   current_time, adapter_local, fed>>

\* SensorTask_InitializeSensor: the adapter's init runs and returns ok
SchedInit(ok) ==
    /\ pc = "init"
    /\ pc' = IF callbacks[cur].init_func /\ ok THEN "init_ok" ELSE "init_fail"
    /\ events' = <<>>
    /\ deinit_calls' = <<>>
    /\ SchedFrame
    /\ UNCHANGED <<sensors, active_sensor_count, global_data_mutex, tick, cur,
                   current_time, adapter_local, fed>>

\* the branch of the main loop after a successful init
\* an init success that also clears error_count
SchedInitOk_ClearsCount ==
    /\ pc = "init_ok"
    /\ LET M1 == [Mgr EXCEPT !.sensors[cur].status = SENSOR_STATUS_ONLINE,
                             !.sensors[cur].error_count = 0,
                             !.sensors[cur].last_update_time = tick]
       IN Commit(SensorTask_NotifyEvent(M1, SENSOR_EVENT_STATUS_CHANGE, cur,
                                        ZeroData, SENSOR_STATUS_ONLINE))
    /\ pc' = "due"
    /\ SchedFrame
    /\ UNCHANGED <<global_data_mutex, tick, cur, current_time, adapter_local, fed>>

SchedInitOk ==
    /\ pc = "init_ok"
    /\ LET M1 == [Mgr EXCEPT !.sensors[cur].status = SENSOR_STATUS_ONLINE,
                             !.sensors[cur].last_update_time = tick]
       IN Commit(SensorTask_NotifyEvent(M1, SENSOR_EVENT_STATUS_CHANGE, cur,
                                        ZeroData, SENSOR_STATUS_ONLINE))
    /\ pc' = "due"
    /\ SchedFrame
    /\ UNCHANGED <<global_data_mutex, tick, cur, current_time, adapter_local, fed>>

\* a failed init that goes on to the interval test of the same sensor
SchedInitFail_FallsThrough ==
    /\ pc = "init_fail"
    /\ Commit(SensorTask_HandleSensorError(Mgr, cur))
    /\ pc' = "due"
    /\ SchedFrame
    /\ UNCHANGED <<global_data_mutex, tick, cur, current_time, adapter_local, fed>>

\* the branch of the main loop after a failed init
SchedInitFail ==
    /\ pc = "init_fail"
    /\ Commit(SensorTask_HandleSensorError(Mgr, cur))
    /\ NextSensor
    /\ SchedFrame
    /\ UNCHANGED <<global_data_mutex, tick, adapter_local, fed>>

\* current_time = HAL_GetTick() and the interval test
SchedDue ==
    /\ pc = "due"
    /\ IF TickSub(tick, sensors[cur].last_update_time) >= sensors[cur].update_interval_ms
       THEN pc' = "read" /\ cur' = cur /\ current_time' = tick
       ELSE NextSensor
    /\ events' = <<>>
    /\ deinit_calls' = <<>>
    /\ SchedFrame
    /\ UNCHANGED <<sensors, active_sensor_count, global_data_mutex, tick,
                   adapter_local, fed>>

\* SensorTask_UpdateSensor calls the adapter's read, which takes dt ms and
\* returns ok with the reading r = <<primary, secondary>>.  The SHT30 adapter
\* stores temp here and humi in the next step; it alone writes data.is_valid.
SchedRead(ok, r, dt) ==
    /\ pc = "read"
    /\ tick' = TickAdd(tick, dt)
    /\ IF callbacks[cur].read_func /\ ok
       THEN /\ sensors' = [sensors EXCEPT ![cur].data.p = r[1]]
            /\ fed' = [fed EXCEPT ![cur] = PushFed(@, r)]
            /\ IF cur = SENSOR_TYPE_SHT30
               THEN pc' = "read2" /\ adapter_local' = r[2]
               ELSE pc' = "lock" /\ adapter_local' = adapter_local
       ELSE /\ sensors' = IF cur = SENSOR_TYPE_SHT30 /\ callbacks[cur].read_func
                          THEN [sensors EXCEPT ![cur].data.is_valid = FALSE]
                          ELSE sensors
            /\ pc' = "read_fail"
            /\ UNCHANGED <<fed, adapter_local>>
    /\ events' = <<>>
    /\ deinit_calls' = <<>>
    /\ SchedFrame
    /\ UNCHANGED <<active_sensor_count, global_data_mutex, cur, current_time>>

\* SHT30_Sensor_Read stores humi and sets is_valid
SchedRead2 ==
    /\ pc = "read2"
    /\ sensors' = [sensors EXCEPT ![cur].data.s = adapter_local,
                                  ![cur].data.is_valid = TRUE]
    /\ adapter_local' = 0
    /\ pc' = "lock"
    /\ events' = <<>>
    /\ deinit_calls' = <<>>
    /\ SchedFrame
    /\ UNCHANGED <<active_sensor_count, global_data_mutex, tick, cur,
                   current_time, fed>>

\* the branch of the main loop after a failed read
SchedReadFail ==
    /\ pc = "read_fail"
    /\ Commit(SensorTask_HandleSensorError(Mgr, cur))
    /\ NextSensor
    /\ SchedFrame
    /\ UNCHANGED <<global_data_mutex, tick, adapter_local, fed>>

\* osMutexWait(global_data_mutex, osWaitForever) returns
SchedLock ==
    /\ pc = "lock"
    /\ global_data_mutex = "free"
    /\ global_data_mutex' = "sched"
    /\ pc' = "update"
    /\ events' = <<>>
    /\ deinit_calls' = <<>>
    /\ SchedFrame
    /\ UNCHANGED <<sensors, active_sensor_count, tick, cur, current_time,
                   adapter_local, fed>>

\* an update that takes and releases the mutex and records nothing
SchedUpdate_RecordsNothing ==
    /\ pc = "update"
    /\ global_data_mutex' = "free"
    /\ pc' = "post"
    /\ events' = <<>>
    /\ deinit_calls' = <<>>
    /\ SchedFrame
    /\ UNCHANGED <<sensors, active_sensor_count, tick, cur, current_time,
                   adapter_local, fed>>

\* an update that notifies the listener before it releases the mutex
SchedUpdate_NotifiesInside ==
    /\ pc = "update"
    /\ LET M1 == [Mgr EXCEPT !.sensors[cur] = UpdateAnalytics(@, cur)]
       IN Commit(SensorTask_NotifyEvent(M1, SENSOR_EVENT_DATA_UPDATE, cur,
                                        M1.sensors[cur].data, M1.sensors[cur].status))
    /\ global_data_mutex' = "free"
    /\ pc' = "post"
    /\ SchedFrame
    /\ UNCHANGED <<tick, cur, current_time, adapter_local, fed>>

\* an update that returns without releasing the mutex
SchedUpdate_KeepsMutex ==
    /\ pc = "update"
    /\ sensors' = [sensors EXCEPT ![cur] = UpdateAnalytics(@, cur)]
    /\ pc' = "post"
    /\ events' = <<>>
    /\ deinit_calls' = <<>>
    /\ SchedFrame
    /\ UNCHANGED <<global_data_mutex, active_sensor_count, tick, cur,
                   current_time, adapter_local, fed>>

\* the update under the mutex, and osMutexRelease
SchedUpdate ==
    /\ pc = "update"
    /\ sensors' = [sensors EXCEPT ![cur] = UpdateAnalytics(@, cur)]
    /\ global_data_mutex' = "free"
    /\ pc' = "post"
    /\ events' = <<>>
    /\ deinit_calls' = <<>>
    /\ SchedFrame
    /\ UNCHANGED <<active_sensor_count, tick, cur, current_time, adapter_local, fed>>

\* a stamp of the time at which the read returned
SchedPost_StampsNow ==
    /\ pc = "post"
    /\ LET M1 == [Mgr EXCEPT !.sensors[cur].last_update_time = tick]
       IN Commit(SensorTask_NotifyEvent(M1, SENSOR_EVENT_DATA_UPDATE, cur,
                                        M1.sensors[cur].data, M1.sensors[cur].status))
    /\ NextSensor
    /\ SchedFrame
    /\ UNCHANGED <<global_data_mutex, tick, adapter_local, fed>>

\* back in the main loop: stamp the time and notify
SchedPost ==
    /\ pc = "post"
    /\ LET M1 == [Mgr EXCEPT !.sensors[cur].last_update_time = current_time]
       IN Commit(SensorTask_NotifyEvent(M1, SENSOR_EVENT_DATA_UPDATE, cur,
                                        M1.sensors[cur].data, M1.sensors[cur].status))
    /\ NextSensor
    /\ SchedFrame
    /\ UNCHANGED <<global_data_mutex, tick, adapter_local, fed>>

\* the sweep is over: osDelay for the rest of the loop period
SchedSleep ==
    /\ pc = "for"
    /\ cur = SENSOR_TYPE_MAX
    /\ tick' = TickAdd(tick, LOOP_PERIOD_MS)
    /\ cur' = SENSOR_TYPE_NONE + 1
    /\ pc' = "for"
    /\ events' = <<>>
    /\ deinit_calls' = <<>>
    /\ SchedFrame
    /\ UNCHANGED <<sensors, active_sensor_count, global_data_mutex,
                   current_time, adapter_local, fed>>

(* ---------------------------- specifications ---------------------------- *)
\* the callbacks struct a caller registers: init, read and deinit set
FullCallbacks ==
    [ptr |-> TRUE, init_func |-> TRUE, read_func |-> TRUE, deinit_func |-> TRUE]

\* the polling task with adapters that succeed or fail freely
Sched(Readings, Delays) ==
    \/ SchedStart
    \/ SchedCheckEnabled
    \/ SchedCheckStatus
    \/ \E ok \in BOOLEAN : SchedInit(ok)
    \/ SchedInitOk
    \/ SchedInitFail
    \/ SchedDue
    \/ \E ok \in BOOLEAN, r \in Readings, dt \in Delays : SchedRead(ok, r, dt)
    \/ SchedRead2
    \/ SchedReadFail
    \/ SchedLock
    \/ SchedUpdate
    \/ SchedPost
    \/ SchedSleep

\* the polling task with adapters that never fail
SchedHealthy(Readings, Delays) ==
    \/ SchedStart
    \/ SchedCheckEnabled
    \/ SchedCheckStatus
    \/ SchedInit(TRUE)
    \/ SchedInitOk
    \/ SchedDue
    \/ \E r \in Readings, dt \in Delays : SchedRead(TRUE, r, dt)
    \/ SchedRead2
    \/ SchedLock
    \/ SchedUpdate
    \/ SchedPost
    \/ SchedSleep

\* the queries of the application task
Queries(Ops, Ts) ==
    \/ \E op \in Ops, t \in Ts : AppQueryBegin(op, t)
    \/ AppQueryLock
    \/ AppQueryTimeout
    \/ AppQueryCopy
    \/ AppReturn

\* the bring-up of Sensor_System_Init: Init, then the event callback, then
\* the adapters register (here those of Ts, each while it is not enabled)
BringUp(Ts, Intervals) ==
    \/ \E m \in BOOLEAN, t \in BOOLEAN : AppInit(m, t)
    \/ /\ is_initialized
       /\ ~g_event_callback
       /\ AppRegisterEventCallback(TRUE)
    \/ \E type \in Ts, ms \in Intervals :
          /\ g_event_callback
          /\ ~sensors[type].is_enabled
          /\ AppRegisterSensor(type, FullCallbacks, ms)

\* One sensor, adapters that fail freely, callers that enable and disable.
Next ==
    \/ BringUp({SENSOR_TYPE_SHT30}, {MIN_UPDATE_INTERVAL})
    \/ \E type \in {SENSOR_TYPE_SHT30} : AppEnableSensor(type)
    \/ \E type \in {SENSOR_TYPE_SHT30} : AppDisableSensor(type)
    \/ Queries({"GetSensorStatus"}, {SENSOR_TYPE_SHT30})
    \/ Sched({<<20, 50>>}, {0})

Spec == Init /\ [][Next]_vars

\* the readings of the fake dual-channel adapter
TwoReadings == {<<20, 50>>, <<22, 55>>}

\* One healthy dual-channel sensor fed two different readings, and a reader.
NextHist ==
    \/ BringUp({SENSOR_TYPE_SHT30}, {MIN_UPDATE_INTERVAL})
    \/ Queries({"GetPrimaryHistory"}, {SENSOR_TYPE_SHT30})
    \/ AppHistoryReturn
    \/ SchedHealthy(TwoReadings, {0})

SpecHist == Init /\ [][NextHist]_vars

\* The same sensor, and a reader of its latest reading and statistics.
NextData ==
    \/ BringUp({SENSOR_TYPE_SHT30}, {MIN_UPDATE_INTERVAL})
    \/ Queries({"GetSensorData", "GetStats"}, {SENSOR_TYPE_SHT30})
    \/ SchedHealthy(TwoReadings, {0})

SpecData == Init /\ [][NextData]_vars

\* The polling task with an adapter for type bad whose init always fails (so
\* it is never read) and healthy adapters for the other types.
SchedOneBad(bad, Readings, Delays) ==
    \/ SchedStart
    \/ SchedCheckEnabled
    \/ SchedCheckStatus
    \/ SchedInit(cur # bad)
    \/ SchedInitOk
    \/ SchedInitFail
    \/ SchedDue
    \/ \E r \in Readings, dt \in Delays : SchedRead(TRUE, r, dt)
    \/ SchedRead2
    \/ SchedLock
    \/ SchedUpdate
    \/ SchedPost
    \/ SchedSleep

\* Sensor_System_Init as it runs, once: after Init and the event callback,
\* the adapters of Ts register in the order of their types, each once.
BringUpOnce(Ts, Intervals) ==
    \/ \E m \in BOOLEAN, t \in BOOLEAN : AppInit(m, t)
    \/ /\ is_initialized
       /\ ~g_event_callback
       /\ AppRegisterEventCallback(TRUE)
    \/ \E type \in Ts, ms \in Intervals :
          /\ g_event_callback
          /\ ~callbacks[type].read_func
          /\ \A before \in Ts : before < type => callbacks[before].read_func
          /\ AppRegisterSensor(type, FullCallbacks, ms)

\* Two sensors, the first with the failing adapter; no caller enables or
\* disables.
NextLive ==
    \/ BringUpOnce({SENSOR_TYPE_GY30, SENSOR_TYPE_SHT30}, {MIN_UPDATE_INTERVAL})
    \/ AppReturn
    \/ SchedOneBad(SENSOR_TYPE_GY30, {<<20, 50>>}, {0})

\* The polling task is a task of its own that the kernel keeps running: a
\* step it can take it takes.  No other task holds the data mutex here, so
\* its untimed wait for the mutex ends at once.
SpecLive ==
    /\ Init
    /\ [][NextLive]_vars
    /\ WF_vars(SchedOneBad(SENSOR_TYPE_GY30, {<<20, 50>>}, {0}))

\* the polling task with adapters that never fail and never return the
\* reading they returned last
SchedChanging(Readings, Delays) ==
    \/ SchedStart
    \/ SchedCheckEnabled
    \/ SchedCheckStatus
    \/ SchedInit(TRUE)
    \/ SchedInitOk
    \/ SchedDue
    \/ \E r \in Readings, dt \in Delays :
          /\ SchedRead(TRUE, r, dt)
          /\ fed[cur] # <<>> => r # fed[cur][Len(fed[cur])]
    \/ SchedRead2
    \/ SchedLock
    \/ SchedUpdate
    \/ SchedPost
    \/ SchedSleep

\* One healthy sensor and a reader of its data that contends for the mutex.
NextWrite ==
    \/ BringUpOnce({SENSOR_TYPE_SHT30}, {MIN_UPDATE_INTERVAL})
    \/ Queries({"GetSensorData"}, {SENSOR_TYPE_SHT30})
    \/ SchedChanging(TwoReadings, {0})

\* The application task runs whenever it can (WF on the steps it takes
\* inside a call) and sleeps between its calls (osDelay(4) in its loop), so
\* the polling task, which needs the application task idle or blocked, gets
\* to take each of its steps (SF).
SpecWrite ==
    /\ Init
    /\ [][NextWrite]_vars
    /\ WF_vars(AppQueryLock)
    /\ WF_vars(AppQueryCopy)
    /\ SF_vars(SchedChanging(TwoReadings, {0}))

\* the polling task with adapters whose init succeeds or fails freely and
\* whose read always fails
SchedNoData ==
    \/ SchedStart
    \/ SchedCheckEnabled
    \/ SchedCheckStatus
    \/ \E ok \in BOOLEAN : SchedInit(ok)
    \/ SchedInitOk
    \/ SchedInitFail
    \/ SchedDue
    \/ SchedRead(FALSE, <<0, 0>>, 0)
    \/ SchedReadFail
    \/ SchedSleep

\* registrations stop once active_sensor_count has reached this value (a
\* sensor registered again while enabled is counted again)
MaxActive == 2

\* the kinds a caller may pass: the none sentinel, a real kind, out of range
AnyType == {SENSOR_TYPE_NONE, SENSOR_TYPE_SHT30, SENSOR_TYPE_MAX}

\* the callbacks arguments a caller may pass: NULL, a structure without
\* init_func, one without read_func, a complete one
CallbackArgs ==
    {[FullCallbacks EXCEPT !.ptr = FALSE],
     [FullCallbacks EXCEPT !.init_func = FALSE],
     [FullCallbacks EXCEPT !.read_func = FALSE],
     FullCallbacks}

\* the intervals a caller may register a sensor with
RegisterIntervals == {MIN_UPDATE_INTERVAL, 2 * MIN_UPDATE_INTERVAL}

\* A caller that makes the calls that bring up, enable and disable sensors
\* with valid and invalid arguments, at any time, and adapters that fail.
NextApi ==
    \/ \E m \in BOOLEAN, t \in BOOLEAN : AppInit(m, t)
    \/ AppRegisterEventCallback(TRUE)
    \/ \E type \in AnyType, cbs \in CallbackArgs, ms \in RegisterIntervals :
          /\ active_sensor_count < MaxActive
          /\ AppRegisterSensor(type, cbs, ms)
    \/ \E type \in AnyType : AppEnableSensor(type)
    \/ \E type \in AnyType : AppDisableSensor(type)
    \/ AppReturn
    \/ SchedNoData

SpecApi == Init /\ [][NextApi]_vars

\* the intervals a caller may ask for: just too short, the shortest, a longer
AnyInterval == {MIN_UPDATE_INTERVAL - 1, MIN_UPDATE_INTERVAL, 2 * MIN_UPDATE_INTERVAL}

\* One healthy sensor and a caller that changes intervals, with valid and
\* invalid arguments, at any time.
NextPace ==
    \/ BringUpOnce({SENSOR_TYPE_SHT30}, {MIN_UPDATE_INTERVAL})
    \/ \E type \in AnyType, ms \in AnyInterval : AppSetUpdateInterval(type, ms)
    \/ AppReturn
    \/ SchedHealthy({<<20, 50>>}, {0})

SpecPace == Init /\ [][NextPace]_vars

\* One healthy dual-channel sensor and a reader that makes every query.
NextQuery ==
    \/ BringUpOnce({SENSOR_TYPE_SHT30}, {MIN_UPDATE_INTERVAL})
    \/ Queries(BoolQueries \cup HistoryQueries, {SENSOR_TYPE_SHT30})
    \/ AppHistoryReturn
    \/ SchedHealthy({<<20, 50>>}, {0})

SpecQuery == Init /\ [][NextQuery]_vars

\* the intervals RegisterSensor is called with where short ones matter: none
\* at all, and the shortest that SetUpdateInterval accepts
ShortIntervals == {0, MIN_UPDATE_INTERVAL}

\* One healthy sensor, registered once with an interval that may be shorter
\* than SetUpdateInterval would accept.
NextShort ==
    \/ BringUpOnce({SENSOR_TYPE_SHT30}, ShortIntervals)
    \/ AppReturn
    \/ SchedHealthy(TwoReadings, {0})

SpecShort == Init /\ [][NextShort]_vars

\* how long a call of an adapter's read may take
ReadDelays == {0, LOOP_PERIOD_MS}

\* One sensor whose reads succeed or fail and take time; no caller after the
\* bring-up.
NextSlow ==
    \/ BringUpOnce({SENSOR_TYPE_SHT30}, {MIN_UPDATE_INTERVAL})
    \/ AppReturn
    \/ Sched({<<20, 50>>}, ReadDelays)

SpecSlow == Init /\ [][NextSlow]_vars

\* One healthy dual-channel sensor whose readings alternate, and the chart
\* screen's timer callback, which reads both histories one after the other.
NextChart ==
    \/ BringUpOnce({SENSOR_TYPE_SHT30}, {MIN_UPDATE_INTERVAL})
    \/ Queries({"GetPrimaryHistory"}, {SENSOR_TYPE_SHT30})
    \/ TimerPrimaryReturn
    \/ TimerSecondaryBegin
    \/ TimerSecondaryReturn
    \/ SchedChanging(TwoReadings, {0})

SpecChart == Init /\ [][NextChart]_vars

\* the queries of the primary channel, one of each shape
PrimaryQueries == {"GetSensorData", "GetSensorStatus", "GetStats", "GetPrimaryHistory"}

\* One sensor whose adapter fails freely, and a caller that makes the
\* queries of the primary channel and may disable the sensor: every path
\* that takes the data mutex.
NextMutex ==
    \/ BringUpOnce({SENSOR_TYPE_SHT30}, {MIN_UPDATE_INTERVAL})
    \/ AppDisableSensor(SENSOR_TYPE_SHT30)
    \/ Queries(PrimaryQueries, {SENSOR_TYPE_SHT30})
    \/ AppHistoryReturn
    \/ Sched({<<20, 50>>}, {0})

SpecMutex == Init /\ [][NextMutex]_vars

\* the intervals a caller asks for where only the call matters: just too
\* short (refused) and the shortest (accepted)
EdgeIntervals == {MIN_UPDATE_INTERVAL - 1, MIN_UPDATE_INTERVAL}

\* One sensor whose adapter fails freely, and a caller that enables and
\* disables it and sets its interval at any time.
NextFrame ==
    \/ BringUpOnce({SENSOR_TYPE_SHT30}, {MIN_UPDATE_INTERVAL})
    \/ AppEnableSensor(SENSOR_TYPE_SHT30)
    \/ AppDisableSensor(SENSOR_TYPE_SHT30)
    \/ \E ms \in EdgeIntervals : AppSetUpdateInterval(SENSOR_TYPE_SHT30, ms)
    \/ AppReturn
    \/ Sched({<<20, 50>>}, {0})

SpecFrame == Init /\ [][NextFrame]_vars

\* One healthy sensor, registered once with an interval that may be shorter
\* than SetUpdateInterval would accept, and a caller that sets intervals.
NextInterval ==
    \/ BringUpOnce({SENSOR_TYPE_SHT30}, ShortIntervals)
    \/ \E ms \in AnyInterval : AppSetUpdateInterval(SENSOR_TYPE_SHT30, ms)
    \/ AppReturn
    \/ SchedHealthy({<<20, 50>>}, {0})

SpecInterval == Init /\ [][NextInterval]_vars

(* ----------------------- steps named in properties ---------------------- *)
\* the application task makes the call op on type in this step
Calls(op, type) ==
    /\ app.pc = "idle"
    /\ app'.op = op
    /\ app'.type = type

\* the polling task leaves position p of its visit of type in this step
Leaves(p, type) ==
    /\ pc = p
    /\ cur = type
    /\ pc' # p

\* the positions of the polling task inside a visit, past the enabled test
InVisit == {"status", "init", "init_ok", "init_fail", "due", "read", "read2",
            "read_fail", "lock", "update", "post"}

\* the readings of type that the polling task has recorded under the mutex,
\* oldest first (the last FedLen of them): those fed by the adapter, less the
\* one in flight between the adapter's return and the update
Committed(type) ==
    IF cur = type /\ pc \in {"read2", "lock", "update"}
    THEN SubSeq(fed[type], 1, Len(fed[type]) - 1)
    ELSE fed[type]

\* GetPrimaryHistory(type) returns in this step, having copied
HistoryReturns(type) ==
    /\ app.pc = "copied"
    /\ app.op = "GetPrimaryHistory"
    /\ app.type = type
    /\ app'.pc = "ret"

(* --------------------------------- C1 --------------------------------- *)
\* C1: every failed adapter call adds one to error_count, which only a
\* successful read or an enabling call takes back (a successful init does
\* not); the failure that brings it to 5 leaves the status Initializing, the
\* one that brings it to 10 leaves it Error; the status then stays Error
\* until a caller enables the sensor, and GetSensorStatus returns it.
C1_StepOk(t) ==
    LET e == sensors[t].error_count
        e2 == sensors'[t].error_count
        failed == Leaves("init_fail", t) \/ Leaves("read_fail", t)
        enabling == ~sensors[t].is_enabled /\ sensors'[t].is_enabled
    IN /\ failed => e2 = e + 1
       /\ e2 > e => failed
       /\ e2 < e => (Leaves("update", t) \/ enabling) /\ e2 = 0
       /\ failed /\ e2 = ERROR_SOFT_THRESHOLD
            => sensors'[t].status = SENSOR_STATUS_INITIALIZING
       /\ failed /\ e2 = ERROR_HARD_THRESHOLD
            => sensors'[t].status = SENSOR_STATUS_ERROR
       /\ sensors[t].status = SENSOR_STATUS_ERROR /\ ~enabling
            => sensors'[t].status = SENSOR_STATUS_ERROR
       /\ (app.pc = "locked" /\ app.op = "GetSensorStatus" /\ app.type = t
           /\ app'.pc = "ret")
            => app'.ret = TRUE /\ app'.out = sensors[t].status

\* C1: every step of every sensor keeps the rule above
C1_Escalation == [][\A t \in RealTypes : C1_StepOk(t)]_vars

\* GetSensorStatus has returned Error for a sensor that once was read well
C1_Witness ==
    \E t \in RealTypes :
        /\ sensors[t].status = SENSOR_STATUS_ERROR
        /\ sensors[t].error_count = ERROR_HARD_THRESHOLD
        /\ sensors[t].history_count > 0
        /\ app.pc = "ret" /\ app.op = "GetSensorStatus" /\ app.type = t
        /\ app.ret = TRUE /\ app.out = SENSOR_STATUS_ERROR

(* --------------------------------- C2 --------------------------------- *)
\* C2 as claimed: a successful read and a successful init both leave
\* error_count 0.
C2_Original ==
    [][\A t \in RealTypes :
          /\ Leaves("update", t) => sensors'[t].error_count = 0
          /\ Leaves("init_ok", t) => sensors'[t].error_count = 0]_vars

\* C2 amended: a successful read leaves error_count 0, whatever it was; a
\* successful init leaves error_count as it was.
C2_ReadResets ==
    [][\A t \in RealTypes :
          /\ Leaves("update", t) => sensors'[t].error_count = 0
          /\ Leaves("init_ok", t) =>
                /\ sensors'[t].error_count = sensors[t].error_count
                /\ sensors'[t].status = SENSOR_STATUS_ONLINE]_vars

\* an init has just succeeded after five failures, and the count is still 5
C2_Witness ==
    \E t \in RealTypes :
        /\ pc = "due" /\ cur = t
        /\ sensors[t].status = SENSOR_STATUS_ONLINE
        /\ sensors[t].error_count = ERROR_SOFT_THRESHOLD
        /\ Len(events) = 1 /\ events[1].status = SENSOR_STATUS_ONLINE

C4_EnableFromError ==
    [][\A t \in RealTypes :
          /\ Calls("EnableSensor", t) /\ sensors[t].status = SENSOR_STATUS_ERROR
               => /\ app'.ret = TRUE
                  /\ sensors'[t].error_count = 0
                  /\ sensors'[t].status = SENSOR_STATUS_INITIALIZING
                  /\ sensors'[t].is_enabled
          /\ (pc = "for" /\ cur = t /\ sensors[t].is_enabled /\ (pc' # pc \/ cur' # cur))
               => pc' = "status" /\ cur' = t
          /\ Leaves("status", t) /\ sensors[t].status = SENSOR_STATUS_INITIALIZING
               => pc' = "init" /\ cur' = t]_vars

\* the polling task is calling the init of a sensor that EnableSensor has
\* just brought back from Error
C4_Witness ==
    \E t \in RealTypes :
        /\ app.pc = "ret" /\ app.op = "EnableSensor" /\ app.type = t
        /\ app.before = SENSOR_STATUS_ERROR /\ app.ret = TRUE
        /\ pc = "init" /\ cur = t
        /\ sensors[t].error_count = 0

C6_OthersKeepPolling ==
    /\ (pc # "none") ~> (pc = "for" /\ cur = SENSOR_TYPE_MAX)
    /\ sensors[SENSOR_TYPE_SHT30].is_enabled
          ~> (/\ pc = "post" /\ cur = SENSOR_TYPE_SHT30
              /\ sensors[SENSOR_TYPE_SHT30].status = SENSOR_STATUS_ONLINE)

\* the failing sensor is in Error and the other has just been read once more
C6_Witness ==
    /\ sensors[SENSOR_TYPE_GY30].status = SENSOR_STATUS_ERROR
    /\ sensors[SENSOR_TYPE_GY30].error_count = ERROR_HARD_THRESHOLD
    /\ pc = "post" /\ cur = SENSOR_TYPE_SHT30
    /\ sensors[SENSOR_TYPE_SHT30].status = SENSOR_STATUS_ONLINE
    /\ sensors[SENSOR_TYPE_SHT30].history_count = SENSOR_HISTORY_SIZE
    /\ sensors[SENSOR_TYPE_SHT30].history_head > 0

(* --------------------------------- C7 --------------------------------- *)
\* C7: whenever GetSensorData has returned true for the dual-field sensor,
\* the temperature and humidity it has returned are those of one adapter
\* read (or the zeroes of a sensor never read).
C7_CompleteReading ==
    (/\ app.pc = "ret" /\ app.op = "GetSensorData"
     /\ app.type = SENSOR_TYPE_SHT30 /\ app.ret = TRUE)
        => <<app.out.p, app.out.s>> \in TwoReadings \cup {<<0, 0>>}

(* --------------------------------- C8 --------------------------------- *)
\* C8: when GetPrimaryHistory returns for a sensor of which N readings,
\* 1 <= N <= H, have been recorded, it returns N and the static buffer, whose
\* slot i - 1 holds the primary value of the i-th reading, for i = 1 .. N.
C8_HistoryInOrder ==
    [][\A t \in RealTypes :
          LET c == Committed(t)
              N == Len(c)
          IN HistoryReturns(t) /\ N <= SENSOR_HISTORY_SIZE =>
                /\ ordered_primary_history' = ordered_primary_history
                /\ app'.ret = N
                /\ app'.out = "ordered_primary_history"
                /\ \A i \in 1..N : ordered_primary_history[i - 1] = c[i][1]]_vars

\* GetPrimaryHistory has returned two readings that differ, older first,
\* from a ring that is not yet full
C8_Witness ==
    /\ app.pc = "ret" /\ app.op = "GetPrimaryHistory"
    /\ app.type = SENSOR_TYPE_SHT30
    /\ app.ret = 2
    /\ 2 < SENSOR_HISTORY_SIZE
    /\ Len(fed[SENSOR_TYPE_SHT30]) = 2
    /\ ordered_primary_history[0] = 22
    /\ ordered_primary_history[1] = 20

(* --------------------------------- C9 --------------------------------- *)
\* C9: when GetPrimaryHistory returns for a sensor of which more than H
\* readings have been recorded, it returns H and the static buffer, whose
\* slots 0 .. H - 1 hold the primary values of the last H readings, oldest
\* first.
C9_HistoryWraps ==
    [][\A t \in RealTypes :
          LET c == Committed(t)
              N == Len(c)
          IN HistoryReturns(t) /\ N > SENSOR_HISTORY_SIZE =>
                /\ app'.ret = SENSOR_HISTORY_SIZE
                /\ app'.out = "ordered_primary_history"
                /\ \A i \in 1..SENSOR_HISTORY_SIZE :
                      ordered_primary_history[i - 1]
                          = c[N - SENSOR_HISTORY_SIZE + i][1]]_vars

\* GetPrimaryHistory has returned H readings, not all equal, from a ring
\* whose oldest reading is not in slot 0, after a reading was overwritten
C9_Witness ==
    /\ app.pc = "ret" /\ app.op = "GetPrimaryHistory"
    /\ app.type = SENSOR_TYPE_SHT30
    /\ app.ret = SENSOR_HISTORY_SIZE
    /\ Len(fed[SENSOR_TYPE_SHT30]) > SENSOR_HISTORY_SIZE
    /\ sensors[SENSOR_TYPE_SHT30].history_head # 0
    /\ ordered_primary_history[0] = 22
    /\ ordered_primary_history[SENSOR_HISTORY_SIZE - 1] = 20
    /\ fed[SENSOR_TYPE_SHT30][1][1] = 20

(* --------------------------------- C10 -------------------------------- *)
\* C10: GetStats of a sensor that has been read once returns six statistics
\* that all equal the primary value of that reading.
C10_FirstSampleSeedsAll ==
    [][\A t \in RealTypes :
          (/\ app.pc = "locked" /\ app.op = "GetStats" /\ app.type = t
           /\ app'.pc = "ret"
           /\ Len(Committed(t)) = 1) =>
              LET v == Committed(t)[1][1]
              IN /\ app'.ret = TRUE
                 /\ app'.out.min = v
                 /\ app'.out.max = v
                 /\ app'.out.avg = FNum(v)
                 /\ app'.out.local_min = v
                 /\ app'.out.local_max = v
                 /\ app'.out.local_avg = FNum(v)]_vars

(* --------------------------------- C11 -------------------------------- *)
\* the readings now stored in the ring of type, oldest first: the last
\* history_count of those recorded
C11_Window(type) ==
    LET c == Committed(type)
        n == sensors[type].history_count
    IN SubSeq(c, Len(c) - n + 1, Len(c))

\* reference minimum, maximum and sum of channel k of the readings q
C11_Min(q, k) ==
    CHOOSE v \in {q[i][k] : i \in 1..Len(q)} : \A i \in 1..Len(q) : v <= q[i][k]

C11_Max(q, k) ==
    CHOOSE v \in {q[i][k] : i \in 1..Len(q)} : \A i \in 1..Len(q) : v >= q[i][k]

RECURSIVE C11_Sum(_, _)
C11_Sum(q, k) == IF q = <<>> THEN 0 ELSE q[1][k] + C11_Sum(Tail(q), k)

\* the windowed fields of st are those of channel k of the readings q
C11_Windowed(st, q, k) ==
    /\ st.local_min = C11_Min(q, k)
    /\ st.local_max = C11_Max(q, k)
    /\ st.local_avg = FDiv(C11_Sum(q, k), Len(q))

\* C11: once a sensor has been read more than once, its windowed statistics
\* are the minimum, the maximum and the arithmetic mean of the primary
\* values of the readings now stored in its ring, and for the dual-channel
\* kind the secondary statistics are those of the secondary values.
C11_WindowedStats ==
    \A t \in RealTypes :
        sensors[t].history_count >= 2 =>
            /\ Len(C11_Window(t)) = sensors[t].history_count
            /\ C11_Windowed(sensors[t].stats, C11_Window(t), 1)
            /\ t = SENSOR_TYPE_SHT30 =>
                  C11_Windowed(sensors[t].secondary_stats, C11_Window(t), 2)

\* after the readings (20, 50) and (22, 55): primary 20 / 22 / 21 and
\* secondary 50 / 55 / 52.5
C11_Witness ==
    LET s == sensors[SENSOR_TYPE_SHT30]
    IN /\ s.history_count = 2
       /\ fed[SENSOR_TYPE_SHT30] = <<<<20, 50>>, <<22, 55>>>>
       /\ s.stats.local_min = 20 /\ s.stats.local_max = 22
       /\ s.stats.local_avg = <<21, 1>>
       /\ s.secondary_stats.local_min = 50 /\ s.secondary_stats.local_max = 55
       /\ s.secondary_stats.local_avg = <<105, 2>>
       /\ pc = "post"

(* --------------------------------- C12 -------------------------------- *)
\* the lifetime extremes of st bound channel k of every reading of q
C12_Bounds(st, q, k) ==
    \A i \in 1..Len(q) : st.min <= q[i][k] /\ q[i][k] <= st.max

\* C12: from the first recorded reading on, no step raises a sensor's
\* lifetime min or lowers its lifetime max; the update that records a reading
\* leaves min <= value read <= max; and min and max bound every reading
\* recorded so far, those overwritten in the ring included (the model
\* remembers two readings more than the ring holds).  The same holds for the
\* secondary statistics of the dual-channel kind.
C12_LifetimeWidens ==
    /\ [](\A t \in RealTypes :
            /\ C12_Bounds(sensors[t].stats, Committed(t), 1)
            /\ t = SENSOR_TYPE_SHT30 =>
                  C12_Bounds(sensors[t].secondary_stats, Committed(t), 2))
    /\ [][\A t \in RealTypes :
            /\ sensors[t].history_count >= 1 =>
                  /\ sensors'[t].stats.min <= sensors[t].stats.min
                  /\ sensors'[t].stats.max >= sensors[t].stats.max
                  /\ sensors'[t].secondary_stats.min <= sensors[t].secondary_stats.min
                  /\ sensors'[t].secondary_stats.max >= sensors[t].secondary_stats.max
            /\ Leaves("update", t) =>
                  /\ sensors'[t].stats.min <= sensors[t].data.p
                  /\ sensors[t].data.p <= sensors'[t].stats.max
                  /\ t = SENSOR_TYPE_SHT30 =>
                        /\ sensors'[t].secondary_stats.min <= sensors[t].data.s
                        /\ sensors[t].data.s <= sensors'[t].secondary_stats.max]_vars

\* the largest reading has been overwritten in the ring: the window's
\* maximum is 20, the lifetime maximum still 22
C12_Witness ==
    LET s == sensors[SENSOR_TYPE_SHT30]
    IN /\ s.history_count = SENSOR_HISTORY_SIZE
       /\ s.stats.local_max = 20
       /\ s.stats.max = 22
       /\ s.stats.min = 20
       /\ fed[SENSOR_TYPE_SHT30][1] = <<22, 55>>
       /\ Len(fed[SENSOR_TYPE_SHT30]) = SENSOR_HISTORY_SIZE + 1

(* --------------------------------- C13 -------------------------------- *)
\* C13: once a sensor has been read, its lifetime average equals its
\* windowed average, and so do those of the secondary statistics of the
\* dual-channel kind.
C13_AvgIsLocalAvg ==
    \A t \in RealTypes :
        sensors[t].history_count >= 1 =>
            /\ sensors[t].stats.avg = sensors[t].stats.local_avg
            /\ t = SENSOR_TYPE_SHT30 =>
                  sensors[t].secondary_stats.avg = sensors[t].secondary_stats.local_avg

(* --------------------------------- C14 -------------------------------- *)
\* the slot of the ring of sensor s written last
C14_Newest(s) == (s.history_head + SENSOR_HISTORY_SIZE - 1) % SENSOR_HISTORY_SIZE

\* sensor s of type holds the reading r in its data, in the newest slot of
\* its ring and within its lifetime statistics
C14_Recorded(s, type, r) ==
    /\ s.data.p = r[1]
    /\ s.history[C14_Newest(s)] = r[1]
    /\ s.stats.min <= r[1] /\ r[1] <= s.stats.max
    /\ type = SENSOR_TYPE_SHT30 =>
          /\ s.data.s = r[2]
          /\ s.secondary_history[C14_Newest(s)] = r[2]
          /\ s.secondary_stats.min <= r[2] /\ r[2] <= s.secondary_stats.max

\* C14: a read that has returned success is followed only by the wait for
\* the mutex, the update and the DataUpdate event; the update records the
\* reading the adapter returned; the one event emitted carries it, and is
\* emitted with the reading recorded; and with a reader contending for the
\* mutex every read that has returned success does get recorded and
\* announced.
C14_NoReadDropped ==
    /\ [][\A t \in RealTypes :
            LET r == fed[t][Len(fed[t])]
            IN /\ Leaves("lock", t) => pc' = "update" /\ cur' = t
               /\ Leaves("update", t) =>
                     /\ pc' = "post" /\ cur' = t
                     /\ C14_Recorded(sensors'[t], t, r)
                     /\ sensors'[t].history_count
                           = IF sensors[t].history_count < SENSOR_HISTORY_SIZE
                             THEN sensors[t].history_count + 1
                             ELSE SENSOR_HISTORY_SIZE
               /\ Leaves("post", t) =>
                     /\ C14_Recorded(sensors[t], t, r)
                     /\ Len(events') = 1
                     /\ events'[1].event_type = SENSOR_EVENT_DATA_UPDATE
                     /\ events'[1].sensor_type = t
                     /\ events'[1].data = sensors[t].data
               /\ (\E i \in 1..Len(events') :
                      events'[i].event_type = SENSOR_EVENT_DATA_UPDATE)
                     => Leaves("post", cur)]_vars
    /\ (pc \in {"read2", "lock"}) ~> (pc = "post")

\* a reading has just been recorded, second of two that differ, while a
\* reader is blocked waiting for the mutex
C14_Witness ==
    /\ pc = "post" /\ cur = SENSOR_TYPE_SHT30
    /\ app.pc = "wait"
    /\ fed[SENSOR_TYPE_SHT30] = <<<<20, 50>>, <<22, 55>>>>
    /\ sensors[SENSOR_TYPE_SHT30].history[1] = 22
    /\ sensors[SENSOR_TYPE_SHT30].history_count = 2


(* --------------------------------- C15 -------------------------------- *)
\* the arguments that RegisterSensor must reject
C15_Invalid(type, cbs) ==
    \/ ~is_initialized
    \/ type = SENSOR_TYPE_NONE
    \/ type >= SENSOR_TYPE_MAX
    \/ ~cbs.ptr
    \/ ~cbs.init_func
    \/ ~cbs.read_func

\* C15: RegisterSensor returns false, changes nothing in the registry (the
\* instances, the stored callbacks, the active-sensor count, the
\* initialized flag) and emits no event and calls no adapter when the kind is
\* the none sentinel or out of range, when callbacks is NULL, when init_func
\* or read_func is unset, or when the registry has not been initialized.
C15_RegisterRejects ==
    [][(app.pc = "idle" /\ app'.op = "RegisterSensor") =>
          \A type \in AnyType, cbs \in CallbackArgs, ms \in RegisterIntervals :
             (/\ C15_Invalid(type, cbs)
              /\ AppRegisterSensor(type, cbs, ms))
             => /\ app'.ret = FALSE
                /\ sensors' = sensors
                /\ callbacks' = callbacks
                /\ active_sensor_count' = active_sensor_count
                /\ is_initialized' = is_initialized
                /\ events' = <<>>
                /\ deinit_calls' = <<>>]_vars

\* a registration of a valid kind was rejected for its callbacks, on an
\* initialized registry that has that sensor enabled and a listener for events
C15_Witness ==
    /\ app.pc = "ret"
    /\ app.op = "RegisterSensor"
    /\ app.type = SENSOR_TYPE_SHT30
    /\ app.ret = FALSE
    /\ is_initialized
    /\ g_event_callback
    /\ sensors[SENSOR_TYPE_SHT30].is_enabled
    /\ sensors[SENSOR_TYPE_SHT30].error_count > 0


(* --------------------------------- C16 -------------------------------- *)
\* C16: RegisterSensor with a real kind and callbacks that have init_func
\* and read_func, on an initialized registry, returns true; it stores the
\* callbacks and the interval, leaves the sensor enabled with status
\* Initializing and error_count 0 and the rest of the instance and the other
\* instances as they were, adds one to the active-sensor count and makes one
\* StatusChange(Initializing) notification, which reaches the listener if one
\* is registered; no adapter is called.
C16_RegisterStores ==
    [][(app.pc = "idle" /\ app'.op = "RegisterSensor") =>
          \A type \in AnyType, cbs \in CallbackArgs, ms \in RegisterIntervals :
             (/\ ~C15_Invalid(type, cbs)
              /\ AppRegisterSensor(type, cbs, ms))
             => /\ app'.ret = TRUE
                /\ callbacks' = [callbacks EXCEPT ![type] =
                                    [init_func |-> cbs.init_func,
                                     read_func |-> cbs.read_func,
                                     deinit_func |-> cbs.deinit_func]]
                /\ sensors' = [sensors EXCEPT
                                  ![type].update_interval_ms = ms,
                                  ![type].is_enabled = TRUE,
                                  ![type].status = SENSOR_STATUS_INITIALIZING,
                                  ![type].error_count = 0]
                /\ active_sensor_count' = active_sensor_count + 1
                /\ events' = IF g_event_callback
                             THEN <<Event(SENSOR_EVENT_STATUS_CHANGE, type,
                                          ZeroData, SENSOR_STATUS_INITIALIZING)>>
                             ELSE <<>>
                /\ deinit_calls' = <<>>]_vars

\* a sensor that had ended in Error was registered again, with the longer
\* interval, and the listener was told
C16_Witness ==
    /\ app.pc = "ret"
    /\ app.op = "RegisterSensor"
    /\ app.ret = TRUE
    /\ app.before = SENSOR_STATUS_ERROR
    /\ sensors[SENSOR_TYPE_SHT30].is_enabled
    /\ sensors[SENSOR_TYPE_SHT30].status = SENSOR_STATUS_INITIALIZING
    /\ sensors[SENSOR_TYPE_SHT30].error_count = 0
    /\ sensors[SENSOR_TYPE_SHT30].update_interval_ms = 2 * MIN_UPDATE_INTERVAL
    /\ Len(events) = 1


(* --------------------------------- C17 -------------------------------- *)
\* the time since the last recorded reading of type, as the due test
\* computes it
C17_Elapsed(type) == TickSub(tick, sensors[type].last_update_time)

\* a call of SetUpdateInterval behaves as stated, given when an interval of
\* 100 ms or more is accepted
C17_CallOk(type, ms, accepted) ==
    /\ ms < MIN_UPDATE_INTERVAL =>
          /\ app'.ret = FALSE
          /\ sensors' = sensors
    /\ accepted =>
          /\ app'.ret = TRUE
          /\ sensors' = [sensors EXCEPT ![type].update_interval_ms = ms]

\* the polling task tests the interval that is stored when it makes the
\* test, and only an accepted call (SetUpdateInterval, RegisterSensor, the
\* first Init) changes what is stored
C17_DueUsesStored ==
    \A t \in RealTypes :
       /\ Leaves("due", t) =>
             (pc' = "read" <=> C17_Elapsed(t) >= sensors[t].update_interval_ms)
       /\ sensors'[t].update_interval_ms # sensors[t].update_interval_ms =>
             /\ app.pc = "idle"
             /\ app'.op \in {"SetUpdateInterval", "RegisterSensor", "Init"}
             /\ app'.ret = TRUE

\* C17 as stated: SetUpdateInterval with interval_ms < 100 returns false and
\* leaves the intervals unchanged; with interval_ms >= 100 and a valid kind
\* it returns true and stores the interval, which the polling task uses from
\* its next due test on.
C17_Original ==
    [][/\ (app.pc = "idle" /\ app'.op = "SetUpdateInterval") =>
             \A type \in AnyType, ms \in AnyInterval :
                AppSetUpdateInterval(type, ms) =>
                   C17_CallOk(type, ms,
                              ms >= MIN_UPDATE_INTERVAL /\ ValidType(type))
       /\ C17_DueUsesStored]_vars

\* C17, amended: the same, where an interval of 100 ms or more for a valid
\* kind is accepted once the registry has been initialized; before that the
\* call returns false and changes nothing.
C17_SetUpdateInterval ==
    [][/\ (app.pc = "idle" /\ app'.op = "SetUpdateInterval") =>
             \A type \in AnyType, ms \in AnyInterval :
                AppSetUpdateInterval(type, ms) =>
                   /\ C17_CallOk(type, ms,
                                 /\ ms >= MIN_UPDATE_INTERVAL
                                 /\ ValidType(type)
                                 /\ is_initialized)
                   /\ ~is_initialized =>
                         /\ app'.ret = FALSE
                         /\ sensors' = sensors
       /\ C17_DueUsesStored]_vars

\* the longer interval has just been accepted and the polling task is at a
\* due test that the shorter interval would pass and the longer one fails
C17_Witness ==
    /\ app.pc = "ret"
    /\ app.op = "SetUpdateInterval"
    /\ app.ret = TRUE
    /\ sensors[SENSOR_TYPE_SHT30].update_interval_ms = 2 * MIN_UPDATE_INTERVAL
    /\ pc = "due"
    /\ cur = SENSOR_TYPE_SHT30
    /\ sensors[SENSOR_TYPE_SHT30].history_count > 0
    /\ C17_Elapsed(SENSOR_TYPE_SHT30) = MIN_UPDATE_INTERVAL


(* --------------------------------- C18 -------------------------------- *)
\* the call made in this step returns ret and changes nothing: the instances
\* (status, error_count and the rest), the callbacks, the count; no adapter
\* deinit is called and no event is emitted
C18_NoOp(ret) ==
    /\ app'.ret = ret
    /\ sensors' = sensors
    /\ callbacks' = callbacks
    /\ active_sensor_count' = active_sensor_count
    /\ is_initialized' = is_initialized
    /\ events' = <<>>
    /\ deinit_calls' = <<>>

\* EnableSensor on an enabled sensor returns true and changes nothing, and
\* both calls return false and change nothing for the none sentinel and for
\* a kind out of range
C18_Common(type) ==
    /\ Calls("EnableSensor", type) =>
          /\ (ValidType(type) /\ sensors[type].is_enabled) => C18_NoOp(TRUE)
          /\ ~ValidType(type) => C18_NoOp(FALSE)
    /\ (Calls("DisableSensor", type) /\ ~ValidType(type)) => C18_NoOp(FALSE)

\* C18 as stated: EnableSensor on an enabled sensor and DisableSensor on a
\* disabled sensor return true and change nothing; both return false and
\* change nothing for an invalid kind.
C18_Original ==
    [][\A type \in AnyType :
          /\ C18_Common(type)
          /\ (/\ Calls("DisableSensor", type)
              /\ ValidType(type)
              /\ ~sensors[type].is_enabled) => C18_NoOp(TRUE)]_vars

\* C18, amended: the same, where DisableSensor on a disabled sensor returns
\* true once the registry has been initialized; before that both calls
\* return false for every kind and change nothing.
C18_Idempotent ==
    [][\A type \in AnyType :
          /\ C18_Common(type)
          /\ (/\ Calls("DisableSensor", type)
              /\ ValidType(type)
              /\ ~sensors[type].is_enabled) => C18_NoOp(is_initialized)
          /\ (Calls("EnableSensor", type) /\ ~is_initialized) => C18_NoOp(FALSE)]_vars

\* EnableSensor has returned true for a sensor that was Online and enabled
\* with failed reads counted, and the count of failures is still there
C18_Witness ==
    /\ app.pc = "ret"
    /\ app.op = "EnableSensor"
    /\ app.type = SENSOR_TYPE_SHT30
    /\ app.ret = TRUE
    /\ app.before = SENSOR_STATUS_ONLINE
    /\ sensors[SENSOR_TYPE_SHT30].is_enabled
    /\ sensors[SENSOR_TYPE_SHT30].status = SENSOR_STATUS_ONLINE
    /\ sensors[SENSOR_TYPE_SHT30].error_count > 0
    /\ events = <<>>


(* --------------------------------- C19 -------------------------------- *)
\* C19: a call of Init on an initialized registry returns true and changes
\* nothing: the mutex is the one created before, in the state it was in (also
\* when the polling task holds it), the polling task is where it was, and
\* the instances (registration, status, readings, history, statistics), the
\* callbacks and the active-sensor count are as they were.  The call of Init
\* that first succeeds leaves every slot Offline and disabled, the count 0,
\* the mutex free and the polling task created.
C19_InitOnce ==
    [][(app.pc = "idle" /\ app'.op = "Init") =>
          /\ is_initialized =>
                /\ app'.ret = TRUE
                /\ UNCHANGED <<sensors, callbacks, is_initialized,
                               active_sensor_count, global_data_mutex,
                               g_event_callback, pc, cur, tick, fed>>
          /\ (~is_initialized /\ app'.ret = TRUE) =>
                /\ is_initialized'
                /\ \A t \in Types :
                      /\ sensors'[t].status = SENSOR_STATUS_OFFLINE
                      /\ ~sensors'[t].is_enabled
                      /\ sensors'[t].history_count = 0
                /\ active_sensor_count' = 0
                /\ global_data_mutex' = "free"
                /\ pc' = "boot"
          /\ (~is_initialized /\ app'.ret = FALSE) => ~is_initialized']_vars

\* Init has returned true while the polling task, holding the mutex, was
\* about to record the third reading of a sensor that is Online
C19_Witness ==
    /\ app.pc = "ret"
    /\ app.op = "Init"
    /\ app.ret = TRUE
    /\ global_data_mutex = "sched"
    /\ pc = "update"
    /\ active_sensor_count = 1
    /\ sensors[SENSOR_TYPE_SHT30].status = SENSOR_STATUS_ONLINE
    /\ sensors[SENSOR_TYPE_SHT30].history_count = 2


(* --------------------------------- C20 -------------------------------- *)
\* C20: a query whose wait for the mutex ends while another task still has
\* it returns false, or the count 0 with *history_data set to NULL from the
\* history getters, leaves the caller's output value unwritten, and changes
\* nothing in the registry, in the mutex or in the static buffers of the
\* history getters; it emits no event.
C20_TimeoutFails ==
    [][(app.pc = "wait" /\ global_data_mutex # "free" /\ app' # app) =>
          /\ app'.pc = "ret"
          /\ app'.op = app.op
          /\ app'.ret = IF app.op \in HistoryQueries THEN 0 ELSE FALSE
          /\ app'.out = IF app.op \in HistoryQueries THEN "NULL" ELSE "unset"
          /\ UNCHANGED <<sensors, callbacks, is_initialized, active_sensor_count,
                         global_data_mutex, g_event_callback,
                         ordered_primary_history, ordered_secondary_history,
                         pc, cur, fed>>
          /\ events' = <<>>
          /\ deinit_calls' = <<>>]_vars

\* GetSensorStatus, which fails on an initialized registry only by its
\* timeout, has returned false while the polling task holds the mutex
C20_Witness ==
    /\ app.pc = "ret"
    /\ app.op = "GetSensorStatus"
    /\ app.type = SENSOR_TYPE_SHT30
    /\ app.ret = FALSE
    /\ app.out = "unset"
    /\ is_initialized
    /\ global_data_mutex = "sched"
    /\ sensors[SENSOR_TYPE_SHT30].history_count > 0


(* --------------------------------- C21 -------------------------------- *)
\* the StatusChange events for type among those delivered in this step
C21_StatusEvents(type) ==
    SelectSeq(events', LAMBDA e : /\ e.event_type = SENSOR_EVENT_STATUS_CHANGE
                                  /\ e.sensor_type = type)

\* C21: with a callback registered, every step that changes the status of a
\* sensor delivers a StatusChange event for that sensor, and the last such
\* event of the step carries the status the sensor is left with.
C21_StatusChangeNotified ==
    [][\A t \in RealTypes :
          (g_event_callback /\ sensors'[t].status # sensors[t].status) =>
              /\ C21_StatusEvents(t) # <<>>
              /\ C21_StatusEvents(t)[Len(C21_StatusEvents(t))].status
                    = sensors'[t].status]_vars


(* --------------------------------- C22 -------------------------------- *)
\* C22: a step that invokes the event callback is made by a task that does
\* not hold the data mutex, neither when the step begins nor when it ends:
\* the polling task notifies outside its critical section, and the
\* application task notifies from EnableSensor, DisableSensor and
\* RegisterSensor, which do not take the mutex.
C22_NotifiesUnlocked ==
    [][events' # <<>> =>
          IF app' # app
          THEN global_data_mutex # "app" /\ global_data_mutex' # "app"
          ELSE global_data_mutex # "sched" /\ global_data_mutex' # "sched"]_vars

\* the polling task has just delivered the DataUpdate event of a second
\* reading, with the mutex free
C22_Witness ==
    /\ Len(events) = 1
    /\ events[1].event_type = SENSOR_EVENT_DATA_UPDATE
    /\ events[1].sensor_type = SENSOR_TYPE_SHT30
    /\ global_data_mutex = "free"
    /\ sensors[SENSOR_TYPE_SHT30].history_count = 2


(* --------------------------------- C23 -------------------------------- *)
\* the polling task goes through the instances in index order: the instance
\* it visits changes only to the next one, or to the first when a sweep starts
C23_InOrder ==
    cur' # cur =>
        \/ cur' = cur + 1
        \/ cur' = SENSOR_TYPE_NONE + 1 /\ (pc = "boot" \/ cur = SENSOR_TYPE_MAX)

\* C23: the polling task, at an enabled sensor, calls the adapter's init
\* exactly when it finds the status Initializing.  After a successful init
\* the status is Online, last_update_time is the tick, and one
\* StatusChange(Online) notification is made (delivered if a listener is
\* registered).  After a failed init the error handler has counted the
\* failure and the polling task is at the next instance, which, the
\* instances being visited in order, leaves this sensor unread in this sweep.
C23_InitBranch ==
    [][/\ C23_InOrder
       /\ \A t \in RealTypes :
             /\ Leaves("status", t) =>
                   (pc' = "init" <=> sensors[t].status = SENSOR_STATUS_INITIALIZING)
             /\ (pc' = "init" /\ pc # "init") => pc = "status"
             /\ Leaves("init", t) => pc' \in {"init_ok", "init_fail"} /\ cur' = t
             /\ Leaves("init_ok", t) =>
                   /\ sensors'[t].status = SENSOR_STATUS_ONLINE
                   /\ sensors'[t].last_update_time = tick
                   /\ events' = IF g_event_callback
                                THEN <<Event(SENSOR_EVENT_STATUS_CHANGE, t, ZeroData,
                                             SENSOR_STATUS_ONLINE)>>
                                ELSE <<>>
             /\ Leaves("init_fail", t) =>
                   /\ sensors'[t].error_count = sensors[t].error_count + 1
                   /\ pc' = "for"
                   /\ cur' = t + 1]_vars

\* the first init of a sensor has just failed: the failure is counted, the
\* sensor is still Initializing and unread, and the sweep is at the next
\* instance
C23_Witness ==
    /\ pc = "for"
    /\ cur = SENSOR_TYPE_SHT30 + 1
    /\ sensors[SENSOR_TYPE_SHT30].is_enabled
    /\ sensors[SENSOR_TYPE_SHT30].status = SENSOR_STATUS_INITIALIZING
    /\ sensors[SENSOR_TYPE_SHT30].error_count = 1
    /\ fed[SENSOR_TYPE_SHT30] = <<>>
    /\ ~sensors[SENSOR_TYPE_SHT30].data.is_valid


(* --------------------------------- C24 -------------------------------- *)
\* C24: a visit that has called the adapter's init does not call the
\* adapter's read: the interval test that comes straight after a successful
\* init (the step before it delivered the StatusChange(Online) event of this
\* sensor) does not lead to the read.
C24_InitOrRead ==
    [][\A t \in RealTypes :
          (/\ Leaves("due", t)
           /\ events = <<Event(SENSOR_EVENT_STATUS_CHANGE, t, ZeroData,
                               SENSOR_STATUS_ONLINE)>>)
          => pc' # "read"]_vars


(* --------------------------------- C25 -------------------------------- *)
\* the positions of the polling task from the call of the adapter's read to
\* the notification
C25_Reading == {"read", "read2", "lock", "update", "post"}

\* the events delivered in this step that are DataUpdate events
C25_DataEvents ==
    SelectSeq(events', LAMBDA e : e.event_type = SENSOR_EVENT_DATA_UPDATE)

\* C25: the polling task enters the adapter's read only from an interval
\* test that found tick - last_update_time >= update_interval_ms, and keeps
\* the tick it sampled there; after a successful read the reading is in the
\* history and the statistics, last_update_time becomes that sampled tick,
\* and one DataUpdate notification is made whose data is the reading just
\* read (delivered if a listener is registered); after a failed read the
\* error handler counts the failure, the history and last_update_time are as
\* they were, and no DataUpdate event is delivered.
C25_ReadWhenDue ==
    [][\A t \in RealTypes :
          LET r == fed[t][Len(fed[t])]
          IN /\ (pc' = "read" /\ pc # "read" /\ cur' = t) =>
                   /\ pc = "due" /\ cur = t
                   /\ C17_Elapsed(t) >= sensors[t].update_interval_ms
                   /\ current_time' = tick
             /\ (pc \in C25_Reading /\ pc' \in C25_Reading) =>
                   current_time' = current_time
             /\ Leaves("update", t) =>
                   /\ pc' = "post"
                   /\ C14_Recorded(sensors'[t], t, r)
             /\ Leaves("post", t) =>
                   /\ sensors'[t].last_update_time = current_time
                   /\ sensors'[t].data.p = r[1]
                   /\ events' = IF g_event_callback
                                THEN <<Event(SENSOR_EVENT_DATA_UPDATE, t,
                                             sensors'[t].data, sensors'[t].status)>>
                                ELSE <<>>
             /\ Leaves("read_fail", t) =>
                   /\ sensors'[t].error_count = sensors[t].error_count + 1
                   /\ sensors'[t].last_update_time = sensors[t].last_update_time
                   /\ sensors'[t].history = sensors[t].history
                   /\ sensors'[t].history_count = sensors[t].history_count
             /\ C25_DataEvents # <<>> => pc = "post"]_vars

\* a second reading that took one loop period to read has just been
\* announced: last_update_time is the tick from before the read
C25_Witness ==
    /\ pc = "for"
    /\ cur = SENSOR_TYPE_SHT30 + 1
    /\ Len(events) = 1
    /\ events[1].event_type = SENSOR_EVENT_DATA_UPDATE
    /\ events[1].data.p = 20
    /\ sensors[SENSOR_TYPE_SHT30].history_count = 2
    /\ TickSub(tick, sensors[SENSOR_TYPE_SHT30].last_update_time) = LOOP_PERIOD_MS


(* --------------------------------- C26 -------------------------------- *)
\* the adapter call of the polling task's visit of type has failed and the
\* error handler runs in this step
C26_Fails(type) == Leaves("init_fail", type) \/ Leaves("read_fail", type)

\* C26: the failure that brings error_count to 5 changes, besides the count,
\* only the status, to Initializing: is_enabled and the rest of the instance
\* are as they were, no adapter deinit is called, the active-sensor count is
\* unchanged and no event is delivered.  A status of Initializing is left
\* only by the init of the polling task (a success, or the failure that
\* reaches the hard threshold) or by a caller's DisableSensor, and the polling
\* task, at an enabled sensor that is Initializing, calls the adapter's init:
\* so the next visit of the sensor calls init.
C26_SoftThreshold ==
    [][\A t \in RealTypes :
          /\ (C26_Fails(t) /\ sensors'[t].error_count = ERROR_SOFT_THRESHOLD) =>
                /\ sensors' = [sensors EXCEPT
                                  ![t].error_count = ERROR_SOFT_THRESHOLD,
                                  ![t].status = SENSOR_STATUS_INITIALIZING]
                /\ active_sensor_count' = active_sensor_count
                /\ deinit_calls' = <<>>
                /\ events' = <<>>
          /\ (/\ sensors[t].status = SENSOR_STATUS_INITIALIZING
              /\ sensors'[t].status # SENSOR_STATUS_INITIALIZING) =>
                \/ Leaves("init_ok", t)
                \/ C26_Fails(t) /\ sensors'[t].error_count = ERROR_HARD_THRESHOLD
                \/ Calls("DisableSensor", t)
          /\ (pc = "for" /\ cur = t /\ sensors[t].is_enabled /\ pc' # pc) =>
                pc' = "status" /\ cur' = t
          /\ (Leaves("status", t) /\ sensors[t].status = SENSOR_STATUS_INITIALIZING) =>
                pc' = "init" /\ cur' = t]_vars

\* the fifth failed read in a row of a sensor that was Online with a reading
\* recorded: it is Initializing, still enabled and counted
C26_Witness ==
    /\ pc = "for"
    /\ cur = SENSOR_TYPE_SHT30 + 1
    /\ sensors[SENSOR_TYPE_SHT30].error_count = ERROR_SOFT_THRESHOLD
    /\ sensors[SENSOR_TYPE_SHT30].status = SENSOR_STATUS_INITIALIZING
    /\ sensors[SENSOR_TYPE_SHT30].is_enabled
    /\ sensors[SENSOR_TYPE_SHT30].history_count > 0
    /\ active_sensor_count = 1
    /\ events = <<>>
    /\ deinit_calls = <<>>


(* --------------------------------- C27 -------------------------------- *)
\* the failure of this step brings the error_count of type to the hard
\* threshold
C27_Escalates(type) ==
    /\ C26_Fails(type)
    /\ sensors'[type].error_count = ERROR_HARD_THRESHOLD

\* what every escalation leaves: the sensor disabled with status Error, and,
\* for a listener, StatusChange(Error) as the last event of the step
C27_EndsInError(type) ==
    /\ ~sensors'[type].is_enabled
    /\ sensors'[type].status = SENSOR_STATUS_ERROR
    /\ g_event_callback =>
          /\ events' # <<>>
          /\ events'[Len(events')] = Event(SENSOR_EVENT_STATUS_CHANGE, type,
                                           ZeroData, SENSOR_STATUS_ERROR)
          /\ \A i \in 1..Len(events') : events'[i].sensor_type = type

\* the error handler itself disables the sensor: one call of the adapter's
\* deinit if there is one, and one sensor less in the count
C27_Disables(type) ==
    /\ deinit_calls' = IF callbacks[type].deinit_func THEN <<type>> ELSE <<>>
    /\ active_sensor_count' = active_sensor_count - 1

C28_CopiedSlots(sensor) ==
    LET read_idx == IF sensor.history_count < SENSOR_HISTORY_SIZE
                    THEN 0 ELSE sensor.history_head
    IN {(read_idx + i) % SENSOR_HISTORY_SIZE : i \in 0..(sensor.history_count - 1)}

\* the slots of the ring of type that an update has written: the ring is
\* filled from slot 0 on, one slot for each reading recorded
C28_WrittenSlots(type) == {i \in Slots : i < Len(Committed(type))}

\* the values of the channel ch (1 primary, 2 secondary) among the readings
\* of type that have been recorded
C28_RecordedValues(type, ch) ==
    {Committed(type)[k][ch] : k \in 1..Len(Committed(type))}

\* C28: in every state and for every sensor history_count <= H and
\* history_head < H, and the slots a history getter would copy are
\* history_count slots that an update has written; and what a getter has
\* copied, in the first history_count places of its buffer, are recorded
\* readings, with the rest of the buffer left alone.
C28_RingBounds ==
    /\ [](\A t \in RealTypes :
             /\ sensors[t].history_count \in 0..SENSOR_HISTORY_SIZE
             /\ sensors[t].history_head \in 0..(SENSOR_HISTORY_SIZE - 1)
             /\ C28_CopiedSlots(sensors[t]) \subseteq C28_WrittenSlots(t)
             /\ Cardinality(C28_CopiedSlots(sensors[t])) = sensors[t].history_count)
    /\ [][(app.pc = "locked" /\ app.op \in HistoryQueries /\ app'.pc = "copied") =>
             LET primary == app.op = "GetPrimaryHistory"
                 buf == IF primary THEN ordered_primary_history
                        ELSE ordered_secondary_history
                 buf2 == IF primary THEN ordered_primary_history'
                         ELSE ordered_secondary_history'
             IN \A i \in Slots :
                   IF i < sensors[app.type].history_count
                   THEN buf2[i] \in C28_RecordedValues(app.type,
                                                       IF primary THEN 1 ELSE 2)
                   ELSE buf2[i] = buf[i]]_vars

\* GetSecondaryHistory has copied from a ring that holds two readings and
\* has one slot unwritten
C28_Witness ==
    /\ app.pc = "copied"
    /\ app.op = "GetSecondaryHistory"
    /\ sensors[SENSOR_TYPE_SHT30].history_count = 2
    /\ sensors[SENSOR_TYPE_SHT30].history_head = 2
    /\ ordered_secondary_history[0] = 50
    /\ ordered_secondary_history[1] = 50
    /\ ordered_secondary_history[2] = 0


(* --------------------------------- C29 -------------------------------- *)
\* C29: a sensor whose most recent read failed is not Online: when the
\* polling task has handled a failed read of a sensor, the status of that
\* sensor is not Online.
C29_OnlineMeansRead ==
    [][\A t \in RealTypes :
          Leaves("read_fail", t) => sensors'[t].status # SENSOR_STATUS_ONLINE]_vars


(* --------------------------------- C30 -------------------------------- *)
\* C30: the event callback is invoked by the polling task only: a step that
\* delivers an event is a step of the polling task, not of a caller's task.
C30_OneNotifier ==
    [][events' # <<>> => (app' = app /\ pc \in InVisit)]_vars


(* --------------------------------- C31 -------------------------------- *)
\* C31: in every state a sensor is enabled exactly when its status is
\* Initializing or Online (Offline and Error sensors are disabled), whatever
\* the callers enable or disable between two steps of the polling task.
C31_EnabledIffLive ==
    \A type \in RealTypes :
        sensors[type].is_enabled <=>
            sensors[type].status \in {SENSOR_STATUS_INITIALIZING, SENSOR_STATUS_ONLINE}


(* --------------------------------- C32 -------------------------------- *)
\* a sensor inside a visit of the polling task is disabled only if
\* DisableSensor ran after the enabled test of that visit, and it has not
\* been enabled since
C32_Disabled(type) == ~sensors[type].is_enabled

C32_GoesOnline(type) ==
    /\ sensors'[type].status = SENSOR_STATUS_ONLINE
    /\ sensors[type].status # SENSOR_STATUS_ONLINE

\* C32: once DisableSensor has called a sensor's adapter deinit, the polling
\* task neither calls its adapter read nor sets it Online before it is enabled
\* again: no read and no change to Online happens on a disabled sensor, also
\* when DisableSensor cuts into the visit.
C32_NoUseAfterDeinit ==
    [][\A type \in RealTypes :
          (Leaves("read", type) \/ C32_GoesOnline(type)) => ~C32_Disabled(type)]_vars


(* --------------------------------- C33 -------------------------------- *)
C33_Enabled == {type \in RealTypes : sensors[type].is_enabled}

\* C33: in every state active_sensor_count is the number of sensors whose
\* is_enabled flag is set (so at most the number of real kinds), also after a
\* kind has been registered more than once.
C33_CountsEnabled ==
    /\ active_sensor_count = Cardinality(C33_Enabled)
    /\ active_sensor_count <= Cardinality(RealTypes)


(* --------------------------------- C34 -------------------------------- *)
\* the application task is inside a history getter at position p
C34_InGetter(p) == app.pc = p /\ app.op \in HistoryQueries

\* the static buffer of the getter the application task is in
C34_Buffer ==
    IF app.op = "GetPrimaryHistory"
    THEN ordered_primary_history ELSE ordered_secondary_history

C35_SecondReturns ==
    /\ app.pc = "copied"
    /\ app.op = "GetSecondaryHistory"
    /\ app'.pc = "ret"

\* C35: when the reader has called GetPrimaryHistory and then
\* GetSecondaryHistory for the dual-channel sensor while the polling task
\* goes on, the second call copies as many samples as the first returned, and
\* slot i of the two snapshots holds the primary and the secondary value of
\* one adapter read: the i-th of the last history_count reads recorded.
C35_ChannelsAligned ==
    [][C35_SecondReturns =>
          LET c == Committed(app.type)
              count == sensors[app.type].history_count
          IN /\ app.ret = count
             /\ app'.ret = count
             /\ count <= Len(c)
             /\ \A i \in 0 .. (count - 1) :
                   <<ordered_primary_history[i], ordered_secondary_history[i]>>
                       = c[Len(c) - count + i + 1]]_vars

\* the callback has both snapshots of a ring holding two different readings,
\* and the polling task, cut off by the callback, holds the next reading
\* and has yet to record it
C35_Witness ==
    /\ app.pc = "copied"
    /\ app.op = "GetSecondaryHistory"
    /\ app.ret >= 2
    /\ ordered_primary_history[0] # ordered_primary_history[1]
    /\ ordered_secondary_history[0] # ordered_secondary_history[1]
    /\ pc = "lock" /\ cur = app.type


(* --------------------------------- C36 -------------------------------- *)
\* C36: in every state every sensor has error_count <= 10, and a sensor the
\* polling task may still visit (an enabled one) has error_count < 10: the
\* error handler never counts on from the hard threshold, so its tests
\* error_count == 5 and error_count == 10 are not skipped.
C36_CountBounded ==
    \A type \in RealTypes :
        /\ sensors[type].error_count <= ERROR_HARD_THRESHOLD
        /\ sensors[type].is_enabled => sensors[type].error_count < ERROR_HARD_THRESHOLD

\* a sensor has failed ten times in a row and was disabled at the hard
\* threshold, its count standing at the threshold
C36_Witness ==
    /\ sensors[SENSOR_TYPE_SHT30].error_count = ERROR_HARD_THRESHOLD
    /\ sensors[SENSOR_TYPE_SHT30].status = SENSOR_STATUS_ERROR
    /\ ~sensors[SENSOR_TYPE_SHT30].is_enabled
    /\ pc = "for"


(* --------------------------------- C37 -------------------------------- *)
\* the positions at which the polling task is in, or about to enter, a call
\* of an adapter's init or read, or the error handler that may call deinit
C37_AtAdapter == {"init", "init_fail", "read", "read2", "read_fail"}

\* C37: the data mutex is held by the application task exactly while it is
\* in the critical section of a query, and by the polling task exactly while
\* it is in the analytics update; so it is released on every path before a
\* function returns, it is never held by the polling task around an adapter
\* init, read or deinit, and once created it is free whenever no task is in
\* one of those two sections.
C37_MutexReleased ==
    /\ [](/\ global_data_mutex = "app" <=> app.pc = "locked"
          /\ global_data_mutex = "sched" <=> pc = "update"
          /\ pc \in C37_AtAdapter => global_data_mutex # "sched"
          /\ (is_initialized /\ app.pc # "locked" /\ pc # "update")
                => global_data_mutex = "free")
    /\ [][(deinit_calls' # <<>> /\ app' = app) =>
             (global_data_mutex # "sched" /\ global_data_mutex' # "sched")]_vars

\* a query has returned after its critical section while the polling task,
\* having recorded readings before, is inside a call of the adapter's read
C37_Witness ==
    /\ app.pc = "ret" /\ app.op \in BoolQueries /\ app.ret = TRUE
    /\ pc = "read2"
    /\ sensors[cur].history_count > 0
    /\ global_data_mutex = "free"


(* --------------------------------- C38 -------------------------------- *)
\* the step is a call of DisableSensor, EnableSensor or SetUpdateInterval, a
\* run of the error handler, or an adapter read that fails
C38_Step ==
    \/ app.pc = "idle"
       /\ app'.op \in {"DisableSensor", "EnableSensor", "SetUpdateInterval"}
    \/ pc \in {"init_fail", "read_fail"} /\ pc' # pc
    \/ pc = "read" /\ pc' = "read_fail"

\* the step leaves the history and the statistics of type as they were
C38_Kept(type) ==
    /\ sensors'[type].history = sensors[type].history
    /\ sensors'[type].secondary_history = sensors[type].secondary_history
    /\ sensors'[type].history_head = sensors[type].history_head
    /\ sensors'[type].history_count = sensors[type].history_count
    /\ sensors'[type].stats = sensors[type].stats
    /\ sensors'[type].secondary_stats = sensors[type].secondary_stats

\* the ring of type holds as many samples as were recorded since Init, up
\* to its size
C38_Continued(type) ==
    sensors[type].history_count =
        (IF Len(Committed(type)) < SENSOR_HISTORY_SIZE
         THEN Len(Committed(type)) ELSE SENSOR_HISTORY_SIZE)

\* C38: DisableSensor, EnableSensor, SetUpdateInterval, the error handler and
\* a failed adapter read leave every sensor's history buffers, history_head,
\* history_count and statistics unchanged; so what was collected before a
\* disable or an Error is still there afterwards, and the samples recorded
\* after a re-enable are added to it.
C38_HistoryKept ==
    /\ [][C38_Step => \A type \in RealTypes : C38_Kept(type)]_vars
    /\ [](\A type \in RealTypes : C38_Continued(type))

\* a sensor that had gone to Error with one sample recorded was enabled
\* again and has since recorded a second sample
C38_Witness ==
    /\ sensors[SENSOR_TYPE_SHT30].history_count = 2
    /\ sensors[SENSOR_TYPE_SHT30].stats.max = 20
    /\ app.op = "EnableSensor" /\ app.before = SENSOR_STATUS_ERROR
    /\ app.pc = "ret" /\ app.ret = TRUE
    /\ pc = "for"


(* --------------------------------- C39 -------------------------------- *)
\* a sensor is registered once RegisterSensor has stored its callbacks
C39_Registered(type) == callbacks[type].read_func

\* C39 as stated: in every state every registered sensor has an update
\* interval of at least 100 ms.
C39_Original ==
    \A type \in RealTypes :
        C39_Registered(type) => sensors[type].update_interval_ms >= MIN_UPDATE_INTERVAL

\* the step is the call RegisterSensor(type, ..., ms) for some interval ms,
\* and stores that interval
C39_RegistersWith(type) ==
    /\ app.pc = "idle"
    /\ app'.op = "RegisterSensor"
    /\ \E ms \in ShortIntervals :
          /\ AppRegisterSensor(type, FullCallbacks, ms)
          /\ sensors'[type].update_interval_ms = ms

\* the step is an accepted call of SetUpdateInterval for type with an
\* interval of at least 100 ms
C39_SetsTo(type) ==
    /\ app.pc = "idle"
    /\ app'.op = "SetUpdateInterval" /\ app'.type = type /\ app'.ret = TRUE
    /\ sensors'[type].update_interval_ms >= MIN_UPDATE_INTERVAL

\* C39, amended: a sensor's update interval changes only when RegisterSensor
\* stores the interval it is given, whatever it is, and when SetUpdateInterval
\* accepts one of at least 100 ms; a call of SetUpdateInterval that returns
\* false leaves it as it was.  A registered sensor has an interval below 100
\* ms only if it was registered with it.
C39_IntervalSources ==
    [][\A type \in RealTypes :
          /\ sensors'[type].update_interval_ms # sensors[type].update_interval_ms
                => (C39_RegistersWith(type) \/ C39_SetsTo(type))
          /\ (app.pc = "idle" /\ app'.op = "SetUpdateInterval" /\ app'.ret = FALSE)
                => sensors'[type].update_interval_ms = sensors[type].update_interval_ms]_vars

\* a sensor was registered with interval 0 and read, and SetUpdateInterval
\* has just refused a too short interval for it: its interval is still 0
C39_Witness ==
    /\ C39_Registered(SENSOR_TYPE_SHT30)
    /\ sensors[SENSOR_TYPE_SHT30].update_interval_ms = 0
    /\ sensors[SENSOR_TYPE_SHT30].history_count > 0
    /\ app.pc = "ret" /\ app.op = "SetUpdateInterval"
    /\ app.type = SENSOR_TYPE_SHT30 /\ app.ret = FALSE


(* --------------------------------- C40 -------------------------------- *)
\* the index of the oldest sample as the history getters take it
C40_GetterStart(sensor) ==
    IF sensor.history_count < SENSOR_HISTORY_SIZE THEN 0 ELSE sensor.history_head

\* the index at which the scan of the windowed statistics starts
C40_ScanStart(sensor) ==
    (sensor.history_head - sensor.history_count + SENSOR_HISTORY_SIZE)
        % SENSOR_HISTORY_SIZE

\* C40: in every state, for every sensor, history_count < H implies
\* history_head = history_count; so the getters' start index equals the start
\* index of the windowed-statistics scan, and the snapshot a getter would
\* copy holds, slot by slot, the samples the scan visits, in its order.
C40_SameTraversal ==
    \A type \in RealTypes :
        LET sensor == sensors[type]
            snapshot == OrderedHistory([i \in Slots |-> 0], sensor.history, sensor)
        IN /\ sensor.history_head \in Slots
           /\ sensor.history_count \in 0 .. SENSOR_HISTORY_SIZE
           /\ sensor.history_count < SENSOR_HISTORY_SIZE
                 => sensor.history_head = sensor.history_count
           /\ C40_GetterStart(sensor) = C40_ScanStart(sensor)
           /\ \A i \in 0 .. (sensor.history_count - 1) :
                 snapshot[i] = sensor.history[(C40_ScanStart(sensor) + i)
                                                 % SENSOR_HISTORY_SIZE]

\* a ring that is not yet full and not empty, just written: head and count
\* stand at the same slot
C40_Witness ==
    /\ pc = "post" /\ cur = SENSOR_TYPE_SHT30
    /\ sensors[SENSOR_TYPE_SHT30].history_count = SENSOR_HISTORY_SIZE - 1
    /\ sensors[SENSOR_TYPE_SHT30].history_head = SENSOR_HISTORY_SIZE - 1
    /\ sensors[SENSOR_TYPE_SHT30].history_count > 0

=============================================================================
